---- MODULE Spec2Model ----
(***************************************************************************)
(* A model of the timetable generator's core: the scheduling state         *)
(* (backend/engine/state_manager.py), the lab and theory schedulers, the    *)
(* multi-class generation loop (backend/engine/scheduler.py), the          *)
(* constraint engine (backend/constraints) and the hill-climbing optimizer  *)
(* (backend/engine/optimizer.py).                                           *)
(*                                                                         *)
(* Python dictionaries are functions whose DOMAIN is the set of keys        *)
(* present; Python lists are sequences; a missing key or the value None is  *)
(* the string None for text fields and -1 for numeric fields.               *)
(***************************************************************************)
EXTENDS Integers, Sequences, FiniteSets, TLC

VARIABLES
    state,        \* SpecState: the TimetableState under test
    last_call,    \* SpecState: the last call made on it, with the state before it
    cfg,          \* Spec: the generation context (branchData + smartInputData)
    pc,           \* Spec: position of generate() in its control flow
    class_idx,    \* Spec: index into normalized_classes of the class being generated
    class_state,  \* Spec: the fresh TimetableState of the class being generated
    lab_loop,     \* Spec: the locals of schedule_class_labs' loop
    lab_report,   \* Spec: per class id, the outcome of schedule_class_labs
    all_timetables, \* Spec: class id -> formatted entries returned for the class
    failures,     \* Spec: class id -> error reason
    result,       \* Spec: what generate() returned
    feasibility_calls, \* Spec: how often FeasibilityVerifier.verify was evaluated
    opt,          \* SpecOpt: the local variables of TimetableOptimizer.optimize
    eng           \* SpecEngine: a ConstraintEngine, the calls made on it and the save route

stateVars == <<state, last_call>>
genVars == <<cfg, pc, class_idx, class_state, lab_loop, lab_report,
             all_timetables, failures, result, feasibility_calls>>
optVars == <<opt>>
engVars == <<eng>>
vars == <<state, last_call, cfg, pc, class_idx, class_state, lab_loop, lab_report,
          all_timetables, failures, result, feasibility_calls, opt, eng>>

None == "None"

\* Python truthiness of an optional text field: None and "" are falsy.
Truthy(x) == x # None /\ x # ""

\* dict.get(key, default)
DictGet(d, k, default) == IF k \in DOMAIN d THEN d[k] ELSE default

\* del d[k]
DictDel(d, k) == [x \in (DOMAIN d) \ {k} |-> d[x]]

\* d[k] = v
DictSet(d, k, v) == [x \in (DOMAIN d) \cup {k} |-> IF x = k THEN v ELSE d[x]]

EmptyDict == [x \in {} |-> None]

\* list.remove(x): removes the first element equal to x
RECURSIVE ListRemove(_, _)
ListRemove(s, x) ==
    IF s = <<>> THEN <<>>
    ELSE IF Head(s) = x THEN Tail(s)
    ELSE <<Head(s)>> \o ListRemove(Tail(s), x)

\* x in list
InList(s, x) == \E i \in 1..Len(s) : s[i] = x

(***************************************************************************)
(* Scheduling state: backend/engine/state_manager.py                       *)
(***************************************************************************)

\* TimetableState.__init__ with no uploaded timetable and no locked slots
EmptyState ==
    [slots |-> <<>>,
     slot_grid |-> EmptyDict,
     locked_slots |-> {},
     teacher_assignments |-> EmptyDict,
     room_assignments |-> EmptyDict,
     subject_counts |-> EmptyDict]

\* (day, slot, year, division)
slot_key_of(a) == <<a.day, a.slot, a.year, a.division>>

\* f"{day}_{slot}_{year}_{division}"
default_slot_id(k) == k[1] \o "_" \o ToString(k[2]) \o "_" \o k[3] \o "_" \o k[4]

\* The grid value after storing assignment a under key k: a scalar when the
\* key is new, otherwise a list with a appended.
grid_store(grid, k, a) ==
    IF k \in DOMAIN grid
    THEN DictSet(grid, k, [is_list |-> TRUE, items |-> Append(grid[k].items, a)])
    ELSE DictSet(grid, k, [is_list |-> FALSE, items |-> <<a>>])

\* index[key].append(a), creating the list when the key is new
index_append(index, key, a) ==
    DictSet(index, key, Append(DictGet(index, key, <<>>), a))

assign_slot(st, a, lock) ==
    LET k == slot_key_of(a)
        teacher_key == <<a.teacher, a.day, a.slot>>
        room_key == <<a.room, a.day, a.slot>>
        subject_key == <<a.subject, a.year, a.division>>
    IN [slots |-> Append(st.slots, a),
        slot_grid |-> grid_store(st.slot_grid, k, a),
        teacher_assignments |->
            IF Truthy(a.teacher)
            THEN index_append(st.teacher_assignments, teacher_key, a)
            ELSE st.teacher_assignments,
        room_assignments |->
            IF Truthy(a.room)
            THEN index_append(st.room_assignments, room_key, a)
            ELSE st.room_assignments,
        subject_counts |->
            IF Truthy(a.subject)
            THEN DictSet(st.subject_counts, subject_key,
                         DictGet(st.subject_counts, subject_key, 0) + 1)
            ELSE st.subject_counts,
        locked_slots |->
            IF lock
            THEN st.locked_slots \cup {IF a.id # None THEN a.id ELSE default_slot_id(k)}
            ELSE st.locked_slots]

\* The grid after rollback: the whole key is deleted.
grid_remove(grid, k, a) ==
    IF k \in DOMAIN grid THEN DictDel(grid, k) ELSE grid

\* The occupancy list of `key` without a; the key is dropped when it empties.
index_remove(index, key, a) ==
    IF key \in DOMAIN index
    THEN LET rest == IF InList(index[key], a)
                     THEN ListRemove(index[key], a) ELSE index[key]
         IN IF rest = <<>> THEN DictDel(index, key) ELSE DictSet(index, key, rest)
    ELSE index

rollback_slot(st, a) ==
    LET k == slot_key_of(a)
        teacher_key == <<a.teacher, a.day, a.slot>>
        room_key == <<a.room, a.day, a.slot>>
        subject_key == <<a.subject, a.year, a.division>>
    IN [slots |-> IF InList(st.slots, a) THEN ListRemove(st.slots, a) ELSE st.slots,
        slot_grid |-> grid_remove(st.slot_grid, k, a),
        teacher_assignments |-> index_remove(st.teacher_assignments, teacher_key, a),
        room_assignments |-> index_remove(st.room_assignments, room_key, a),
        subject_counts |->
            IF subject_key \in DOMAIN st.subject_counts
            THEN IF st.subject_counts[subject_key] - 1 <= 0
                 THEN DictDel(st.subject_counts, subject_key)
                 ELSE DictSet(st.subject_counts, subject_key,
                              st.subject_counts[subject_key] - 1)
            ELSE st.subject_counts,
        locked_slots |-> st.locked_slots]

is_slot_locked(st, k) == default_slot_id(k) \in st.locked_slots

get_slot_assignment(st, day, slot_index, year, division) ==
    DictGet(st.slot_grid, <<day, slot_index, year, division>>, None)

is_slot_free(st, day, slot_index, year, division) ==
    <<day, slot_index, year, division>> \notin DOMAIN st.slot_grid

is_teacher_available(st, teacher, day, slot_index) ==
    <<teacher, day, slot_index>> \notin DOMAIN st.teacher_assignments

is_room_available(st, room, day, slot_index) ==
    <<room, day, slot_index>> \notin DOMAIN st.room_assignments

get_subject_count(st, subject, year, division) ==
    DictGet(st.subject_counts, <<subject, year, division>>, 0)

\* context.get('uploadedTimetable', []) and context.get('lockedSlots', [])
uploaded_of(c) == IF "uploadedTimetable" \in DOMAIN c THEN c.uploadedTimetable ELSE <<>>

locked_slots_of(c) == IF "lockedSlots" \in DOMAIN c THEN c.lockedSlots ELSE {}

\* _load_uploaded_timetable: every (valid) uploaded slot is assigned with lock=True
RECURSIVE load_uploaded_timetable(_, _)
load_uploaded_timetable(st, uploaded) ==
    IF uploaded = <<>> THEN st
    ELSE load_uploaded_timetable(assign_slot(st, Head(uploaded), TRUE), Tail(uploaded))

\* TimetableState.__init__(context)
initial_state(c) ==
    LET loaded == load_uploaded_timetable(EmptyState, uploaded_of(c))
    IN [loaded EXCEPT !.locked_slots = @ \cup locked_slots_of(c)]

(***************************************************************************)
(* Assignments as the schedulers build them                                *)
(***************************************************************************)

\* LabScheduler._commit_assignment: the entry of one slot of a lab window
lab_assignment(year, division, batch, subject, teacher, room, day, start, offset) ==
    [id |-> "LAB_" \o year \o "_" \o division \o "_" \o day \o "_" \o ToString(start)
             \o "_" \o batch \o "_" \o ToString(offset),
     day |-> day, slot |-> start + offset, year |-> year, division |-> division,
     batch |-> batch, subject |-> subject, teacher |-> teacher, room |-> room,
     type |-> "LAB"]

\* TheoryScheduler._assign_slot_on_day: the entry of one lecture (no id, no batch)
theory_assignment(year, division, day, slot_idx, subject, teacher, room) ==
    [id |-> None,
     day |-> day, slot |-> slot_idx, year |-> year, division |-> division,
     batch |-> None, subject |-> subject, teacher |-> teacher, room |-> room,
     type |-> "THEORY"]

(***************************************************************************)
(* SpecState: arbitrary assign_slot / rollback_slot calls on one state     *)
(***************************************************************************)

\* Bound: how many entries the state under test may hold
MaxAssigned == 2

\* The assignments the calls are drawn from: two parallel lab batches of one
\* cohort slot, a lecture in that slot, the same lecture in another cohort,
\* an entry with no teacher, room or subject.
StateAssignments ==
    { lab_assignment("SE", "A", "B1", "PL1", "T1", "L1", "Monday", 1, 0),
      lab_assignment("SE", "A", "B2", "PL2", "T2", "L2", "Monday", 1, 0),
      theory_assignment("SE", "A", "Monday", 1, "Math", "T1", "R1"),
      theory_assignment("SE", "B", "Monday", 1, "Math", "T1", "R1"),
      theory_assignment("SE", "A", "Monday", 2, "Math", "T1", "R1"),
      theory_assignment("SE", "A", "Monday", 2, None, None, None) }

NoLoop == [batch |-> 0, subj |-> 0, completed |-> 0, success_count |-> 0]

NoCall == [op |-> "none", a |-> None, pre |-> EmptyState]

GenIdle ==
    /\ cfg = None /\ pc = "idle" /\ class_idx = 0 /\ class_state = EmptyState
    /\ lab_loop = NoLoop /\ lab_report = EmptyDict /\ all_timetables = EmptyDict
    /\ failures = EmptyDict /\ result = None /\ feasibility_calls = 0

OptIdle == opt = None

EngIdle == eng = None

StateIdle == state = EmptyState /\ last_call = NoCall

InitState == state = EmptyState /\ last_call = NoCall /\ GenIdle /\ OptIdle /\ EngIdle

\* state.assign_slot(a, lock)
AssignSlotCall ==
    /\ Len(state.slots) < MaxAssigned
    /\ \E a \in StateAssignments, lock \in BOOLEAN :
        /\ state' = assign_slot(state, a, lock)
        /\ last_call' = [op |-> "assign", a |-> a, pre |-> state]
    /\ UNCHANGED <<genVars, optVars, engVars>>

\* state.rollback_slot(a); when it directly follows assign_slot(a) the state
\* before that assign is kept for comparison.
RollbackSlotCall ==
    /\ \E a \in StateAssignments :
        /\ state' = rollback_slot(state, a)
        /\ last_call' =
            IF last_call.op = "assign" /\ last_call.a = a
            THEN [op |-> "assign_rollback", a |-> a, pre |-> last_call.pre]
            ELSE [op |-> "rollback", a |-> a, pre |-> EmptyState]
    /\ UNCHANGED <<genVars, optVars, engVars>>

NextState == AssignSlotCall \/ RollbackSlotCall

SpecState == InitState /\ [][NextState]_vars

\* C3: assign_slot(A) immediately followed by rollback_slot(A) leaves the
\* grid, the teacher-occupancy index, the room-occupancy index and the
\* subject-count index equal to their content before the assign.
C3_RollbackRestoresAll ==
    last_call.op = "assign_rollback" =>
        /\ state.slot_grid = last_call.pre.slot_grid
        /\ state.teacher_assignments = last_call.pre.teacher_assignments
        /\ state.room_assignments = last_call.pre.room_assignments
        /\ state.subject_counts = last_call.pre.subject_counts

(***************************************************************************)
(* Generation context: branchData and smartInputData                       *)
(***************************************************************************)

\* Bounds of the configurations generate() is run on
MaxBatches == 4     \* labBatchesPerYear is 1 or MaxBatches for every year (or the key missing)
MaxLabs == 2        \* 1 or MaxLabs shared labs
MaxSlots == 3       \* the day holds MaxSlots - 1 or MaxSlots lecture slots
MaxWeekly == 1      \* weeklyLectures of the lecture subject is 0 or MaxWeekly

Min(S) == CHOOSE x \in S : \A y \in S : x <= y
Max(S) == CHOOSE x \in S : \A y \in S : x >= y

\* A subject record of smartInputData.subjects
Subject(name, year, division, isPractical, type, weeklyLectures, lecturesPerWeek) ==
    [name |-> name, year |-> year, division |-> division, isPractical |-> isPractical,
     type |-> type, weeklyLectures |-> weeklyLectures, lecturesPerWeek |-> lecturesPerWeek]

Teacher(name, subjects, maxLecturesPerWeek) ==
    [name |-> name, subjects |-> subjects, maxLecturesPerWeek |-> maxLecturesPerWeek]

\* The subjects a configuration may list, in this order: a practical of
\* every SE division, a practical restricted to SE division B, a lecture
\* subject of SE, a practical of TE.
SubjectCatalog(w) ==
    << Subject("PL1", "SE", None, TRUE, "Practical", -1, 2),
       Subject("PL2", "SE", "B", TRUE, None, -1, -1),
       Subject("Math", "SE", None, FALSE, "Lecture", w, -1),
       Subject("TPL", "TE", None, TRUE, "Practical", -1, -1) >>

\* The sub-list of s at the positions in `keep`
RECURSIVE SubList(_, _, _)
SubList(s, keep, i) ==
    IF i > Len(s) THEN <<>>
    ELSE (IF i \in keep THEN <<s[i]>> ELSE <<>>) \o SubList(s, keep, i + 1)

SubjectLists ==
    { SubList(SubjectCatalog(w), keep, 1) : w \in {0, MaxWeekly}, keep \in SUBSET (1..4) }

\* academicYears and divisions
DivisionLayouts ==
    { [academicYears |-> <<"SE">>, divisions |-> ("SE" :> <<"A", "B">>)],
      [academicYears |-> <<"SE", "TE">>, divisions |-> ("SE" :> <<"A">>) @@ ("TE" :> <<"A">>)] }

\* teachers and teacherSubjectMap
Staffings ==
    { [teachers |-> <<Teacher("T1", <<"PL1", "Math">>, 2), Teacher("T2", <<"PL1", "PL2", "TPL">>, 3)>>,
       teacherSubjectMap |-> <<[subjectName |-> "Math", teacherName |-> "T1"]>>],
      [teachers |-> <<Teacher("T1", <<"PL1">>, -1), Teacher("T2", <<>>, -1)>>,
       teacherSubjectMap |-> <<[subjectName |-> "PL1", teacherName |-> "T2"],
                               [subjectName |-> "TPL", teacherName |-> "T2"]>>] }

LabNames == <<"L1", "L2", "L3", "L4">>

\* workingDays: a list of n day names, an integer n, or the key missing
\* (n is then the 5 that FeasibilityVerifier reads as its default)
WorkingDayChoices ==
    { [kind |-> "list", n |-> 1], [kind |-> "list", n |-> 5], [kind |-> "int", n |-> 5],
      [kind |-> "missing", n |-> 5] }

\* Times are minutes after midnight, as parse_time reads them.
Configs ==
    { [academicYears |-> lay.academicYears,
       divisions |-> lay.divisions,
       subjects |-> subj,
       teachers |-> staff.teachers,
       teacherSubjectMap |-> staff.teacherSubjectMap,
       sharedLabs |-> SubSeq(LabNames, 1, nlabs),
       labBatchesPerYear |-> IF nb = 0 THEN EmptyDict
                             ELSE [y \in {"SE", "TE"} |-> nb],
       workingDays |-> wd,
       slotsPerDay |-> nslots,
       startTime |-> 540,
       endTime |-> 540 + 60 * nslots,
       lectureDuration |-> 60,
       recessEnabled |-> recess,
       recessStart |-> 600]
      : lay \in DivisionLayouts, subj \in SubjectLists, staff \in Staffings,
        nlabs \in {1, MaxLabs}, nb \in {0, 1, MaxBatches}, wd \in WorkingDayChoices,
        nslots \in (MaxSlots - 1)..MaxSlots, recess \in BOOLEAN }

\* One cohort SE-A with one lecture subject of three sessions a week, five
\* working days of six slots, one qualified teacher and two rooms
SingleCohortConfig ==
    [academicYears |-> <<"SE">>,
     divisions |-> ("SE" :> <<"A">>),
     subjects |-> << Subject("Math", "SE", None, FALSE, "Lecture", 3, -1) >>,
     teachers |-> << Teacher("T1", <<"Math">>, -1) >>,
     teacherSubjectMap |-> << [subjectName |-> "Math", teacherName |-> "T1"] >>,
     rooms |-> <<"R1", "R2">>,
     sharedLabs |-> <<>>,
     labBatchesPerYear |-> EmptyDict,
     workingDays |-> [kind |-> "list", n |-> 5],
     slotsPerDay |-> 6,
     startTime |-> 540,
     endTime |-> 900,
     lectureDuration |-> 60,
     recessEnabled |-> FALSE,
     recessStart |-> 600]

\* An uploaded whole-class lecture of SE-A on Monday (no batch)
uploaded_lecture(slot, type) ==
    [id |-> "u1", day |-> "Monday", slot |-> slot, year |-> "SE", division |-> "A",
     batch |-> None, subject |-> "Math", teacher |-> "T9", room |-> "R1", type |-> type]

\* One cohort SE-A with one practical and a lecture subject that needs no
\* session, a day of three slots, and an uploaded timetable of one lecture
\* typed 'Lecture' or 'THEORY'
UploadConfigs ==
    { [academicYears |-> <<"SE">>,
       divisions |-> ("SE" :> <<"A">>),
       subjects |-> << Subject("PL1", "SE", None, TRUE, "Practical", -1, -1),
                       Subject("Math", "SE", None, FALSE, "Lecture", 0, -1) >>,
       teachers |-> << Teacher("T1", <<"PL1">>, -1), Teacher("T2", <<"PL1">>, -1) >>,
       teacherSubjectMap |-> <<>>,
       rooms |-> <<"R1", "R2">>,
       sharedLabs |-> <<"L1", "L2">>,
       labBatchesPerYear |-> ("SE" :> nb),
       workingDays |-> [kind |-> "list", n |-> 5],
       slotsPerDay |-> 3,
       startTime |-> 540,
       endTime |-> 720,
       lectureDuration |-> 60,
       recessEnabled |-> FALSE,
       recessStart |-> 600,
       uploadedTimetable |-> << uploaded_lecture(slot, type) >>]
      : nb \in 1..2, slot \in 1..2, type \in {"Lecture", "THEORY"} }

\* The contexts generate() is run on
GenerateConfigs == Configs \cup {SingleCohortConfig} \cup UploadConfigs

\* utils.time_utils.calculate_time_slots
calculate_time_slots(bd) ==
    IF bd.startTime = -1 \/ bd.endTime = -1 \/ bd.lectureDuration <= 0
    THEN [total_slots |-> 8, recess_slot |-> -1]
    ELSE [total_slots |-> ((bd.endTime - bd.startTime) % 1440) \div bd.lectureDuration,
          recess_slot |-> IF bd.recessEnabled /\ bd.recessStart # -1
                          THEN ((bd.recessStart - bd.startTime) % 1440) \div bd.lectureDuration
                          ELSE -1]

\* s.get('isPractical') or s.get('type') == 'Practical'
is_lab_subject(s) == s.isPractical \/ s.type = "Practical"

(***************************************************************************)
(* Input validation and normalization: backend/engine/scheduler.py         *)
(***************************************************************************)

\* The duplicate-dropping loop of _validate_inputs: the first record of every
\* (name, year, division, type) key is kept.
RECURSIVE dedupe_subjects(_, _)
dedupe_subjects(subjects, seen) ==
    IF subjects = <<>> THEN <<>>
    ELSE LET s == Head(subjects)
             key == <<s.name, s.year, s.division, s.type>>
         IN IF key \in seen
            THEN dedupe_subjects(Tail(subjects), seen)
            ELSE <<s>> \o dedupe_subjects(Tail(subjects), seen \cup {key})

\* working_days = branch_data.get('workingDays', []);
\* len(working_days) if isinstance(working_days, list) else 5
num_days_of(bd) ==
    IF bd.workingDays.kind = "list" THEN bd.workingDays.n
    ELSE IF bd.workingDays.kind = "missing" THEN 0
    ELSE 5

daily_lab_limit == 1

\* How many practical subjects the list holds for `year`
lab_count_of(subjects, year) ==
    Cardinality({i \in 1..Len(subjects) : is_lab_subject(subjects[i]) /\ subjects[i].year = year})

\* _validate_inputs: the error it raises, or None
validate_inputs_error(c) ==
    LET subjects == dedupe_subjects(c.subjects, {})
        years == {subjects[i].year : i \in 1..Len(subjects)}
    IN IF \E y \in years : lab_count_of(subjects, y) > num_days_of(c) * daily_lab_limit
       THEN "ValueError"
       ELSE None

\* The class objects built by _validate_and_normalize_inputs, year by year
RECURSIVE classes_of_years(_, _)
classes_of_years(years, divisions) ==
    IF years = <<>> THEN <<>>
    ELSE LET y == Head(years)
             divs == DictGet(divisions, y, <<>>)
         IN [i \in 1..Len(divs) |->
                [id |-> y \o "-" \o divs[i], year |-> y, division |-> divs[i]]]
            \o classes_of_years(Tail(years), divisions)

normalized_classes(c) == classes_of_years(c.academicYears, c.divisions)

(***************************************************************************)
(* Lab scheduler: backend/engine/lab_scheduler.py                          *)
(***************************************************************************)

Days == <<"Monday", "Tuesday", "Wednesday", "Thursday", "Friday", "Saturday">>

standard_duration == 2

default_batches == 3

\* int(self.lab_batches_per_year.get(year, 3))
num_batches_of(c, year) == DictGet(c.labBatchesPerYear, year, default_batches)

\* f"B{b+1}"
batch_name(b) == "B" \o ToString(b)

\* The practical subjects of the year (every division's), in input order
lab_subjects_of(c, year) ==
    LET Keep(s) == s.year = year /\ is_lab_subject(s)
    IN SelectSeq(c.subjects, Keep)

\* _map_teachers_to_subjects, for one subject: the explicit map's teachers
\* first, then the teachers whose subject list names it.
RECURSIVE map_entries_for(_, _)
map_entries_for(map, sub) ==
    IF map = <<>> THEN <<>>
    ELSE (IF Truthy(Head(map).subjectName) /\ Truthy(Head(map).teacherName)
             /\ Head(map).subjectName = sub
          THEN <<Head(map).teacherName>> ELSE <<>>)
         \o map_entries_for(Tail(map), sub)

RECURSIVE add_competent(_, _, _)
add_competent(mapped, teachers, sub) ==
    IF teachers = <<>> THEN mapped
    ELSE LET t == Head(teachers)
         IN add_competent(
                IF InList(t.subjects, sub) /\ ~InList(mapped, t.name)
                THEN Append(mapped, t.name) ELSE mapped,
                Tail(teachers), sub)

subject_teachers(c, sub) ==
    add_competent(map_entries_for(c.teacherSubjectMap, sub), c.teachers, sub)

\* A window enumeration that does not look at the recess slot
windows_of_day_mut(c, day, duration) ==
    LET tc == calculate_time_slots(c)
        Ordered[n \in 0..tc.total_slots] ==
            IF n = 0 THEN <<>>
            ELSE Ordered[n - 1] \o
                 (IF n <= tc.total_slots - duration + 1
                  THEN <<[day |-> day, start_slot |-> n]>> ELSE <<>>)
    IN Ordered[tc.total_slots]

\* _get_valid_windows: per day, start slots 1 .. slots - duration + 1, without
\* the windows that contain the recess slot.
windows_of_day(c, day, duration) ==
    LET tc == calculate_time_slots(c)
        Starts == {i \in 1..(tc.total_slots - duration + 1) :
                     ~(tc.recess_slot # -1 /\ tc.recess_slot \in i..(i + duration - 1))}
        Ordered[n \in 0..tc.total_slots] ==
            IF n = 0 THEN <<>>
            ELSE Ordered[n - 1] \o
                 (IF n \in Starts THEN <<[day |-> day, start_slot |-> n]>> ELSE <<>>)
    IN Ordered[tc.total_slots]

RECURSIVE windows_from(_, _, _)
windows_from(c, d, duration) ==
    IF d > Len(Days) THEN <<>>
    ELSE windows_of_day(c, Days[d], duration) \o windows_from(c, d + 1, duration)

get_valid_windows(c, duration) == windows_from(c, 1, duration)

\* _is_batch_free: no entry of this batch and no THEORY entry in any slot of the window
is_batch_free(st, day, start_slot, duration, year, division, batch) ==
    \A offset \in 0..(duration - 1) :
        LET k == <<day, start_slot + offset, year, division>>
        IN k \in DOMAIN st.slot_grid =>
            \A i \in 1..Len(st.slot_grid[k].items) :
                /\ st.slot_grid[k].items[i].batch # batch
                /\ st.slot_grid[k].items[i].type # "THEORY"

\* A lab search that takes the first shared lab whether or not it is occupied
find_lab_room_mut(c, st, day, start_slot, duration) ==
    IF c.sharedLabs = <<>> THEN None ELSE c.sharedLabs[1]

\* _find_lab_room: the first shared lab free in every slot of the window, or None
find_lab_room(c, st, day, start_slot, duration) ==
    LET Free == {i \in 1..Len(c.sharedLabs) :
                    \A offset \in 0..(duration - 1) :
                        is_room_available(st, c.sharedLabs[i], day, start_slot + offset)}
    IN IF Free = {} THEN None ELSE c.sharedLabs[Min(Free)]

\* _find_teacher: the first mapped teacher free in every slot of the window, or None
find_teacher(c, st, subject, day, start_slot, duration) ==
    LET mapped == subject_teachers(c, subject.name)
        Free == {i \in 1..Len(mapped) :
                    \A offset \in 0..(duration - 1) :
                        is_teacher_available(st, mapped[i], day, start_slot + offset)}
    IN IF Free = {} THEN None ELSE mapped[Min(Free)]

\* _commit_assignment: one locked LAB entry per slot of the window
RECURSIVE commit_assignment(_, _, _, _, _, _, _, _, _, _)
commit_assignment(st, year, division, batch, subject, teacher, room, day, start, offsets) ==
    IF offsets = <<>> THEN st
    ELSE commit_assignment(
            assign_slot(st, lab_assignment(year, division, batch, subject.name, teacher,
                                           room, day, start, Head(offsets)), TRUE),
            year, division, batch, subject, teacher, room, day, start, Tail(offsets))

\* Whether the window admits (batch, subject): batch free, a lab free, a teacher free
window_fits(c, st, w, year, division, batch, subject, duration) ==
    /\ is_batch_free(st, w.day, w.start_slot, duration, year, division, batch)
    /\ find_lab_room(c, st, w.day, w.start_slot, duration) # None
    /\ find_teacher(c, st, subject, w.day, w.start_slot, duration) # None

\* _assign_batch_subject: commits the first fitting window; ok tells whether one was found
assign_batch_subject(c, st, year, division, batch, subject, duration) ==
    LET windows == get_valid_windows(c, duration)
        Fit == {i \in 1..Len(windows) :
                  window_fits(c, st, windows[i], year, division, batch, subject, duration)}
    IN IF Fit = {} THEN [ok |-> FALSE, st |-> st]
       ELSE LET w == windows[Min(Fit)]
            IN [ok |-> TRUE,
                st |-> commit_assignment(st, year, division, batch, subject,
                          find_teacher(c, st, subject, w.day, w.start_slot, duration),
                          find_lab_room(c, st, w.day, w.start_slot, duration),
                          w.day, w.start_slot,
                          [o \in 1..duration |-> o - 1])]

\* The subject at position j (1-based) of the batch's rotated subject order
rotated_subject(lab_subjects, batch_index, j) ==
    LET n == Len(lab_subjects)
        rotation == batch_index % n
    IN lab_subjects[((rotation + j - 1) % n) + 1]

\* Mutation of batch_complete: a batch with one subject placed counts as full
batch_complete_mut(completed, required) == completed >= 1

\* completed_subjects == len(lab_subjects): the batch is fully scheduled
batch_complete(completed, required) == completed = required

(***************************************************************************)
(* Feasibility verifier: backend/engine/feasibility.py                     *)
(***************************************************************************)

RECURSIVE SumSeq(_)
SumSeq(s) == IF s = <<>> THEN 0 ELSE Head(s) + SumSeq(Tail(s))

default_weekly_for_feasibility == 0

default_max_load == 25

lab_slots_per_subject == 2

\* int(subject.get('weeklyLectures', 0))
feasibility_weekly(s) ==
    IF s.weeklyLectures = -1 THEN default_weekly_for_feasibility ELSE s.weeklyLectures

\* Sum of the weekly lectures of the year's subjects that are not practical
required_lectures_of(c, year) ==
    SumSeq([i \in 1..Len(c.subjects) |->
              IF c.subjects[i].year = year /\ ~c.subjects[i].isPractical
              THEN feasibility_weekly(c.subjects[i]) ELSE 0])

lab_subjects_count(c, year) ==
    SumSeq([i \in 1..Len(c.subjects) |->
              IF c.subjects[i].year = year /\ c.subjects[i].isPractical THEN 1 ELSE 0])

\* The (year, division) pairs the time check visits
has_division(c) ==
    \E i \in 1..Len(c.academicYears) : DictGet(c.divisions, c.academicYears[i], <<>>) # <<>>

\* _check_time_feasibility. With workingDays a list, the subtraction
\* `total_slots_available - lab_slots_needed` raises TypeError for the
\* first division visited.
check_time_feasibility(c) ==
    IF c.workingDays.kind = "list"
    THEN IF has_division(c)
         THEN [raised |-> "TypeError", valid |-> FALSE, reason |-> None]
         ELSE [raised |-> None, valid |-> TRUE, reason |-> None]
    ELSE LET total_slots_available == c.workingDays.n * c.slotsPerDay
             Bad == {i \in 1..Len(c.academicYears) :
                       /\ DictGet(c.divisions, c.academicYears[i], <<>>) # <<>>
                       /\ required_lectures_of(c, c.academicYears[i]) >
                            total_slots_available
                            - lab_subjects_count(c, c.academicYears[i]) * lab_slots_per_subject}
         IN IF Bad = {} THEN [raised |-> None, valid |-> TRUE, reason |-> None]
            ELSE [raised |-> None, valid |-> FALSE,
                  reason |-> "Time infeasible for " \o c.academicYears[Min(Bad)] \o "-"
                             \o c.divisions[c.academicYears[Min(Bad)]][1]]

\* _check_lab_feasibility: every year needs as many shared labs as it has batches
check_lab_feasibility(c) ==
    LET Bad == {i \in 1..Len(c.academicYears) :
                  num_batches_of(c, c.academicYears[i]) > Len(c.sharedLabs)}
    IN IF Bad = {} THEN [raised |-> None, valid |-> TRUE, reason |-> None]
       ELSE [raised |-> None, valid |-> FALSE,
             reason |-> "Insufficient labs for " \o c.academicYears[Min(Bad)]]

\* The teaching load one subject adds for its year
subject_load(c, s, year) ==
    IF s.year # year THEN 0
    ELSE IF s.isPractical
         THEN 2 * Len(DictGet(c.divisions, year, <<>>)) * num_batches_of(c, year)
         ELSE feasibility_weekly(s) * Len(DictGet(c.divisions, year, <<>>))

total_teaching_load(c) ==
    SumSeq([y \in 1..Len(c.academicYears) |->
              SumSeq([i \in 1..Len(c.subjects) |->
                        subject_load(c, c.subjects[i], c.academicYears[y])])])

total_teacher_capacity(c) ==
    SumSeq([i \in 1..Len(c.teachers) |->
              IF c.teachers[i].maxLecturesPerWeek = -1 THEN default_max_load
              ELSE c.teachers[i].maxLecturesPerWeek])

\* _check_teacher_feasibility
check_teacher_feasibility(c) ==
    IF total_teaching_load(c) > total_teacher_capacity(c)
    THEN [raised |-> None, valid |-> FALSE, reason |-> "Teacher Overload"]
    ELSE [raised |-> None, valid |-> TRUE, reason |-> None]

\* FeasibilityVerifier.verify: the first failing check's answer
verify(c) ==
    IF c.subjects = <<>>
    THEN [raised |-> None, valid |-> FALSE, reason |-> "No subjects defined"]
    ELSE IF ~check_time_feasibility(c).valid THEN check_time_feasibility(c)
    ELSE IF ~check_lab_feasibility(c).valid THEN check_lab_feasibility(c)
    ELSE IF ~check_teacher_feasibility(c).valid THEN check_teacher_feasibility(c)
    ELSE [raised |-> None, valid |-> TRUE, reason |-> None]

(***************************************************************************)
(* Hard constraints: backend/constraints/hard_constraints.py               *)
(***************************************************************************)

\* How many entries of timetable T satisfy Test
count_entries(T, Test(_)) == Cardinality({i \in 1..Len(T) : Test(T[i])})

\* TeacherNonOverlapConstraint.check: the (day, slot, teacher) with more than
\* one entry; entries with no teacher or teacher 'TBA' are skipped.
teacher_overlap_violations(T) ==
    {<<T[i].day, T[i].slot, T[i].teacher>> : i \in
        {i \in 1..Len(T) :
            /\ Truthy(T[i].teacher) /\ T[i].teacher # "TBA"
            /\ \E j \in 1..Len(T) :
                  j # i /\ T[j].day = T[i].day /\ T[j].slot = T[i].slot
                        /\ T[j].teacher = T[i].teacher}}

\* RoomNonOverlapConstraint.check: the (day, slot, room) with more than one entry
room_overlap_violations(T) ==
    {<<T[i].day, T[i].slot, T[i].room>> : i \in
        {i \in 1..Len(T) :
            /\ Truthy(T[i].room) /\ T[i].room # "TBA"
            /\ \E j \in 1..Len(T) :
                  j # i /\ T[j].day = T[i].day /\ T[j].slot = T[i].slot
                        /\ T[j].room = T[i].room}}

\* PracticalBatchSyncConstraint.check reports nothing
batch_sync_violations(T) == {}

subject_key(s) == <<s.name, s.year, s.division>>

\* The required count of one subject record: lecturesPerWeek (0 when
\* missing), times the year's batches for a practical.
required_of_record(c, s) ==
    LET req == IF s.lecturesPerWeek = -1 THEN 0 ELSE s.lecturesPerWeek
    IN IF is_lab_subject(s) THEN req * num_batches_of(c, s.year) ELSE req

\* required_lectures: the last record of a key decides
required_lectures(c) ==
    [k \in {subject_key(c.subjects[i]) : i \in 1..Len(c.subjects)} |->
        required_of_record(c,
            c.subjects[Max({i \in 1..Len(c.subjects) : subject_key(c.subjects[i]) = k})])]

\* An entry the completion rule counts: type is not 'Practical', subject is not 'Free'
counted_as_lecture(a) == a.type # "Practical" /\ a.subject # "Free"

entry_key(a) == <<a.subject, a.year, a.division>>

actual_lectures(T) ==
    [k \in {entry_key(T[i]) : i \in {i \in 1..Len(T) : counted_as_lecture(T[i])}} |->
        Cardinality({i \in 1..Len(T) : counted_as_lecture(T[i]) /\ entry_key(T[i]) = k})]

\* WeeklyLectureCompletionConstraint.check: the keys whose required and
\* actual counts differ
weekly_completion_violations(T, c) ==
    {k \in DOMAIN required_lectures(c) \cup DOMAIN actual_lectures(T) :
        DictGet(required_lectures(c), k, 0) # DictGet(actual_lectures(T), k, 0)}

valid_divisions(c) ==
    UNION {{c.divisions[y][i] : i \in 1..Len(c.divisions[y])} : y \in DOMAIN c.divisions}

\* rooms, labs and sharedLabs of branchData (a missing key is an empty list)
valid_rooms(c) ==
    (IF "rooms" \in DOMAIN c THEN {c.rooms[i] : i \in 1..Len(c.rooms)} ELSE {})
    \cup (IF "labs" \in DOMAIN c THEN {c.labs[i] : i \in 1..Len(c.labs)} ELSE {})
    \cup {c.sharedLabs[i] : i \in 1..Len(c.sharedLabs)}

\* StructuralValidityConstraint.check: <<entry index, field>> of every
\* reference to an unknown year, division, subject, teacher or room
structural_violations(T, c) ==
    LET years == {c.academicYears[i] : i \in 1..Len(c.academicYears)}
        subjects == {c.subjects[i].name : i \in 1..Len(c.subjects)}
        teachers == {c.teachers[i].name : i \in 1..Len(c.teachers)}
    IN {<<i, "year">> : i \in {i \in 1..Len(T) : Truthy(T[i].year) /\ T[i].year \notin years}}
       \cup {<<i, "division">> : i \in {i \in 1..Len(T) :
                Truthy(T[i].division) /\ T[i].division \notin valid_divisions(c)}}
       \cup {<<i, "subject">> : i \in {i \in 1..Len(T) :
                Truthy(T[i].subject) /\ T[i].subject \notin {"Unassigned", "Free"}
                /\ T[i].subject \notin subjects}}
       \cup {<<i, "teacher">> : i \in {i \in 1..Len(T) :
                Truthy(T[i].teacher) /\ T[i].teacher # "TBA" /\ T[i].teacher \notin teachers}}
       \cup {<<i, "room">> : i \in {i \in 1..Len(T) :
                Truthy(T[i].room) /\ T[i].room # "TBA" /\ T[i].room \notin valid_rooms(c)}}

\* ConstraintEngine.validate_timetable: the number of hard violations
hard_violation_count(T, c) ==
    Cardinality(teacher_overlap_violations(T)) + Cardinality(room_overlap_violations(T))
    + Cardinality(batch_sync_violations(T)) + Cardinality(weekly_completion_violations(T, c))
    + Cardinality(structural_violations(T, c))

\* validate_timetable(...)['valid']
timetable_valid(T, c) == hard_violation_count(T, c) = 0

(***************************************************************************)
(* Exact arithmetic for the scores. Scores are kept in hundredths of a     *)
(* point, square roots in units of 10^-4 hundredth; numbers beyond the     *)
(* integer range are little-endian digit sequences in base 10^4.           *)
(***************************************************************************)

Base == 10000

RECURSIVE BNFromInt(_)
BNFromInt(n) == IF n = 0 THEN <<>> ELSE <<n % Base>> \o BNFromInt(n \div Base)

\* a * m + carry, for m and carry up to 2 * 10^5
RECURSIVE BNMulSmall(_, _, _)
BNMulSmall(a, m, carry) ==
    IF a = <<>> THEN BNFromInt(carry)
    ELSE LET p == Head(a) * m + carry
         IN <<p % Base>> \o BNMulSmall(Tail(a), m, p \div Base)

RECURSIVE BNAdd(_, _, _)
BNAdd(a, b, carry) ==
    IF a = <<>> /\ b = <<>> THEN BNFromInt(carry)
    ELSE LET x == (IF a = <<>> THEN 0 ELSE Head(a)) + (IF b = <<>> THEN 0 ELSE Head(b)) + carry
         IN <<x % Base>> \o BNAdd(IF a = <<>> THEN <<>> ELSE Tail(a),
                                  IF b = <<>> THEN <<>> ELSE Tail(b), x \div Base)

\* The digits without leading (most significant) zeros
RECURSIVE BNNorm(_)
BNNorm(a) ==
    IF a = <<>> THEN <<>>
    ELSE IF a[Len(a)] = 0 THEN BNNorm(SubSeq(a, 1, Len(a) - 1)) ELSE a

\* a <= b, both normalised
RECURSIVE BNLeqNorm(_, _)
BNLeqNorm(a, b) ==
    IF Len(a) # Len(b) THEN Len(a) < Len(b)
    ELSE IF a = <<>> THEN TRUE
    ELSE IF a[Len(a)] # b[Len(b)] THEN a[Len(a)] < b[Len(b)]
    ELSE BNLeqNorm(SubSeq(a, 1, Len(a) - 1), SubSeq(b, 1, Len(b) - 1))

BNLeq(a, b) == BNLeqNorm(BNNorm(a), BNNorm(b))

\* y * y for 0 <= y <= 10^8
BNSquare(y) ==
    LET yb == BNFromInt(y)
    IN BNAdd(BNMulSmall(yb, y % Base, 0),
             <<0>> \o BNMulSmall(yb, y \div Base, 0), 0)

FineCap == 100000000

\* The largest y in lo..hi with y * y * den <= num (num a digit sequence);
\* y = lo satisfies it.
RECURSIVE isqrt_search(_, _, _, _)
isqrt_search(num, den, lo, hi) ==
    IF lo = hi THEN lo
    ELSE LET mid == lo + (hi - lo + 1) \div 2
         IN IF BNLeq(BNMulSmall(BNSquare(mid), den, 0), num)
            THEN isqrt_search(num, den, mid, hi)
            ELSE isqrt_search(num, den, lo, mid - 1)

\* min(FineCap, floor(scale * sqrt(a / b))) where scale_sq = scale^2 is a
\* digit sequence, a <= 2 * 10^5, b <= 2 * 10^5
scaled_sqrt(scale_sq, a, b) == isqrt_search(BNMulSmall(scale_sq, a, 0), b, 0, FineCap)

\* The hundredths that are the nearest to some value of lo..hi, values in
\* units of 10^-4 hundredth; more than one at an exact half and when the
\* interval straddles one.
round_candidates(lo, hi) == ((lo + 4999) \div Base)..((hi + 5000) \div Base)

\* Sample statistics of a sequence of counts: n * sum(x^2) - sum(x)^2 and n * (n - 1),
\* whose quotient is the sample variance
variance_num(loads) ==
    Len(loads) * SumSeq([i \in 1..Len(loads) |-> loads[i] * loads[i]])
    - SumSeq(loads) * SumSeq(loads)

variance_den(loads) == Len(loads) * (Len(loads) - 1)

\* The values of a function as a sequence (the order does not matter to the statistics)
RECURSIVE values_of(_)
values_of(f) ==
    IF DOMAIN f = {} THEN <<>>
    ELSE LET k == CHOOSE k \in DOMAIN f : TRUE
         IN <<f[k]>> \o values_of([x \in DOMAIN f \ {k} |-> f[x]])

(***************************************************************************)
(* Soft constraints: backend/constraints/soft_constraints.py               *)
(* Every score is the set of hundredths the rounding may give: one value,  *)
(* or two next to a rounding boundary.                                     *)
(***************************************************************************)

Hundred == 10000        \* 100 points, in hundredths

FullFine == Hundred * Base      \* 100 points, in units of 10^-4 hundredth

\* 10^16 and 25 * 10^14: the squares of 100/3 * 3 and of 100/2 points in fine units
TenTo16 == <<0, 0, 0, 0, 1>>

Scale50Sq == <<0, 0, 0, 2500>>

\* max(0, 100 - deficit) for a deficit in y..y+1 fine units, as an interval
score_interval(y, exact) ==
    [lo |-> IF exact THEN FullFine - y ELSE Max({0, FullFine - y - 1}),
     hi |-> Max({0, FullFine - y})]

\* Entries a teacher-load count includes: not 'Practical', with a teacher that is not 'TBA'
teacher_counted(a) == a.type # "Practical" /\ Truthy(a.teacher) /\ a.teacher # "TBA"

teacher_daily_load(T) ==
    [k \in {<<T[i].teacher, T[i].day>> : i \in {i \in 1..Len(T) : teacher_counted(T[i])}} |->
        Cardinality({i \in 1..Len(T) :
            teacher_counted(T[i]) /\ <<T[i].teacher, T[i].day>> = k})]

\* BalancedTeacherLoadConstraint.check: round(max(0, 100 - stdev / 3 * 100), 2)
balanced_teacher_load_score(T) ==
    LET loads == values_of(teacher_daily_load(T))
    IN IF Len(loads) <= 1 \/ variance_num(loads) = 0 THEN {Hundred}
       ELSE LET y == scaled_sqrt(TenTo16, variance_num(loads), 9 * variance_den(loads))
                v == score_interval(y, FALSE)
            IN round_candidates(v.lo, v.hi)

division_daily_load(T) ==
    [k \in {<<T[i].year, T[i].division, T[i].day>> : i \in 1..Len(T)} |->
        Cardinality({i \in 1..Len(T) : <<T[i].year, T[i].division, T[i].day>> = k})]

\* The daily counts of one division
division_loads(T, div) ==
    LET all == division_daily_load(T)
    IN values_of([k \in {k \in DOMAIN all : <<k[1], k[2]>> = div} |-> all[k]])

\* max(0, 100 - stdev / 2 * 100) of one division, as an interval of fine units
division_score(T, div) ==
    LET loads == division_loads(T, div)
    IN IF Len(loads) <= 1 \/ variance_num(loads) = 0 THEN score_interval(0, TRUE)
       ELSE score_interval(scaled_sqrt(Scale50Sq, variance_num(loads), variance_den(loads)),
                           FALSE)

\* BalancedDailyLoadConstraint.check: round(total_score / num_divisions, 2)
balanced_daily_load_score(T) ==
    LET divs == {<<T[i].year, T[i].division>> : i \in 1..Len(T)}
        Lo[S \in SUBSET divs] ==
            IF S = {} THEN 0
            ELSE LET d == CHOOSE d \in S : TRUE IN division_score(T, d).lo + Lo[S \ {d}]
        Hi[S \in SUBSET divs] ==
            IF S = {} THEN 0
            ELSE LET d == CHOOSE d \in S : TRUE IN division_score(T, d).hi + Hi[S \ {d}]
        n == Cardinality(divs)
    IN IF n = 0 THEN {Hundred}
       ELSE round_candidates(Lo[divs] \div n, (Hi[divs] + n - 1) \div n)

daily_subject_count(T) ==
    LET Key(a) == <<a.day, a.year, a.division, a.subject>>
        Counted == {i \in 1..Len(T) : T[i].type # "Practical"}
    IN [k \in {Key(T[i]) : i \in Counted} |->
            Cardinality({i \in Counted : Key(T[i]) = k})]

\* SubjectRepetitionConstraint.check: round(max(0, 100 - repetitions * (100 / total)), 2)
subject_repetition_score(T) ==
    LET counts == daily_subject_count(T)
        total == Cardinality(DOMAIN counts)
        repetitions == SumSeq(values_of([k \in DOMAIN counts |-> counts[k] - 1]))
    IN IF total = 0 \/ repetitions = 0 THEN {Hundred}
       ELSE IF repetitions >= total THEN {0}
       ELSE round_candidates(FullFine - (FullFine * repetitions + total - 1) \div total,
                             FullFine - (FullFine * repetitions) \div total)

\* PreferenceConstraint.check for a context without teacherPreferences and
\* subjectPreferences (the contexts of this model have neither): 100
preference_score(T, c) == {Hundred}

\* The sums of the four soft scores, i.e. the mean in units of 1/400 point
soft_score_sums(T, c) ==
    {t + d + r + p : t \in balanced_teacher_load_score(T),
                     d \in balanced_daily_load_score(T),
                     r \in subject_repetition_score(T),
                     p \in preference_score(T, c)}

\* ConstraintEngine.compute_quality_score: the unrounded mean (units of 1/400 point)
compute_quality_score(T, c) == soft_score_sums(T, c)

\* round(quality_score, 2), in units of 1/400 point; a mean that ends in
\* exactly half a hundredth rounds either way
round_quality(sum) ==
    IF sum % 4 = 2 THEN {sum - 2, sum + 2}
    ELSE IF sum % 4 = 3 THEN {sum + 1}
    ELSE {sum - (sum % 4)}

\* validate_timetable(...)['qualityScore']
validated_quality_score(T, c) == UNION {round_quality(x) : x \in soft_score_sums(T, c)}

(***************************************************************************)
(* Theory scheduler: backend/engine/theory_scheduler.py                    *)
(***************************************************************************)

\* The methods class TimetableState defines
state_methods ==
    { "_load_uploaded_timetable", "generate_slot_grid", "assign_slot", "rollback_slot",
      "is_slot_locked", "get_filled_slots", "get_slot_assignment", "is_slot_free",
      "is_teacher_available", "is_room_available", "get_subject_count",
      "get_remaining_lectures" }

default_weekly_lectures == 3

\* int(subject.get('weeklyLectures', 3))
lectures_needed_of(s) ==
    IF s.weeklyLectures = -1 THEN default_weekly_lectures ELSE s.weeklyLectures

\* The lecture subjects of the year (every division's), in input order
theory_subjects_of(c, year) ==
    LET Keep(s) == s.year = year /\ ~s.isPractical /\ s.type # "Practical"
    IN SelectSeq(c.subjects, Keep)

\* _pick_best_day reads self.state.get_daily_load_for_class on its first
\* candidate day: an attribute TimetableState does not define.
pick_best_day_error == 
    IF "get_daily_load_for_class" \in state_methods THEN None ELSE "AttributeError"

\* schedule_theory: the error it raises, or None when it returns True. A
\* subject that needs no lecture never reaches _pick_best_day.
schedule_theory_error(c, year) ==
    LET theory == theory_subjects_of(c, year)
    IN IF \E i \in 1..Len(theory) : lectures_needed_of(theory[i]) > 0
       THEN pick_best_day_error
       ELSE None

(***************************************************************************)
(* Result formatting: TimetableScheduler.format_to_canonical               *)
(***************************************************************************)

\* The output entry: the keys id and isPractical are dropped
clean_slot(a) == [a EXCEPT !.id = None]

\* The days of the entries, in order of first appearance
RECURSIVE day_order(_, _)
day_order(slots, seen) ==
    IF slots = <<>> THEN <<>>
    ELSE IF Head(slots).day \in seen THEN day_order(Tail(slots), seen)
    ELSE <<Head(slots).day>> \o day_order(Tail(slots), seen \cup {Head(slots).day})

\* list.sort(key=slot): stable, ascending
RECURSIVE sort_by_slot(_)
sort_by_slot(entries) ==
    IF entries = <<>> THEN <<>>
    ELSE LET m == Min({entries[i].slot : i \in 1..Len(entries)})
             IsMin(e) == e.slot = m
             NotMin(e) == e.slot # m
         IN SelectSeq(entries, IsMin) \o sort_by_slot(SelectSeq(entries, NotMin))

RECURSIVE concat_days(_, _)
concat_days(entries, days) ==
    IF days = <<>> THEN <<>>
    ELSE LET OnDay(e) == e.day = Head(days)
         IN sort_by_slot(SelectSeq(entries, OnDay)) \o concat_days(entries, Tail(days))

\* format_to_canonical(slots).get(class_id, {}): the class's entries day by
\* day, each day sorted by slot
format_to_canonical(slots_list, class_id) ==
    LET Mine(a) == a.year \o "-" \o a.division = class_id
        mine == SelectSeq(slots_list, Mine)
        cleaned == [i \in 1..Len(mine) |-> clean_slot(mine[i])]
    IN concat_days(cleaned, day_order(cleaned, {}))

(***************************************************************************)
(* Spec: TimetableScheduler.generate()                                     *)
(***************************************************************************)

Init ==
    /\ cfg \in GenerateConfigs
    /\ pc = "start"
    /\ class_idx = 0
    /\ class_state = EmptyState
    /\ lab_loop = NoLoop
    /\ lab_report = EmptyDict
    /\ all_timetables = EmptyDict
    /\ failures = EmptyDict
    /\ result = None
    /\ feasibility_calls = 0
    /\ StateIdle /\ OptIdle /\ EngIdle

CurrentClass == normalized_classes(cfg)[class_idx]

\* After a class is stored: the next class, or the final assembly
NextClass ==
    /\ class_idx' = class_idx + 1
    /\ pc' = IF class_idx + 1 > Len(normalized_classes(cfg)) THEN "assemble" ELSE "class_start"

\* A handler that files the failure under every cohort
RecordFailure_mut(error_msg) ==
    /\ failures' = [id \in {normalized_classes(cfg)[i].id : i \in 1..Len(normalized_classes(cfg))}
                      |-> error_msg]
    /\ all_timetables' = DictSet(all_timetables, CurrentClass.id,
                            [timetable |-> <<>>, is_dict |-> FALSE, error |-> error_msg])
    /\ NextClass

\* The except branch of the generation loop: the failure is recorded for
\* this class and an empty list stored as its timetable.
RecordFailure(error_msg) ==
    /\ failures' = DictSet(failures, CurrentClass.id, error_msg)
    /\ all_timetables' = DictSet(all_timetables, CurrentClass.id,
                            [timetable |-> <<>>, is_dict |-> FALSE, error |-> error_msg])
    /\ NextClass

\* Stage INPUT_NORMALIZATION. The feasibility stage after it is commented out.
ValidateAndNormalize ==
    /\ pc = "start"
    /\ IF validate_inputs_error(cfg) # None
       THEN /\ pc' = "done"
            /\ result' = [success |-> FALSE, stage |-> "GLOBAL_SETUP",
                          errorType |-> "RuntimeError"]
            /\ UNCHANGED <<cfg, class_idx>>
       ELSE /\ cfg' = [cfg EXCEPT !.subjects = dedupe_subjects(cfg.subjects, {})]
            /\ class_idx' = 1
            /\ pc' = IF normalized_classes(cfg) = <<>> THEN "assemble" ELSE "class_start"
            /\ UNCHANGED result
    /\ UNCHANGED <<class_state, lab_loop, lab_report, all_timetables, failures,
                   feasibility_calls, stateVars, optVars, engVars>>

\* generate_single_class_timetable up to the lab loop: a fresh state, and
\* schedule_class_labs returning True at once when the year has no practical.
BeginClass ==
    /\ pc = "class_start"
    /\ class_state' = initial_state(cfg)
    /\ IF lab_subjects_of(cfg, CurrentClass.year) = <<>>
       THEN /\ lab_report' = DictSet(lab_report, CurrentClass.id,
                                [returned |-> "True", full_batches |-> {}])
            /\ lab_loop' = NoLoop
            /\ pc' = "theory"
       ELSE /\ lab_report' = DictSet(lab_report, CurrentClass.id,
                                [returned |-> "running", full_batches |-> {}])
            /\ lab_loop' = [batch |-> 1, subj |-> 1, completed |-> 0, success_count |-> 0]
            /\ pc' = "labs"
    /\ UNCHANGED <<cfg, class_idx, all_timetables, failures, result,
                   feasibility_calls, stateVars, optVars, engVars>>

\* One pass of the inner loop of schedule_class_labs: _assign_batch_subject
\* for the current batch and its next subject, and the batch's tally after
\* its last subject.
LabStep ==
    /\ pc = "labs"
    /\ lab_loop.batch <= num_batches_of(cfg, CurrentClass.year)
    /\ LET cls == CurrentClass
           labs == lab_subjects_of(cfg, cls.year)
           batch == batch_name(lab_loop.batch)
           subject == rotated_subject(labs, lab_loop.batch - 1, lab_loop.subj)
           r == assign_batch_subject(cfg, class_state, cls.year, cls.division, batch,
                                     subject, standard_duration)
           completed == lab_loop.completed + (IF r.ok THEN 1 ELSE 0)
           last == lab_loop.subj = Len(labs)
           full == last /\ batch_complete(completed, Len(labs))
       IN /\ class_state' = r.st
          /\ lab_loop' =
                IF last
                THEN [batch |-> lab_loop.batch + 1, subj |-> 1, completed |-> 0,
                      success_count |-> lab_loop.success_count + (IF full THEN 1 ELSE 0)]
                ELSE [lab_loop EXCEPT !.subj = @ + 1, !.completed = completed]
          /\ lab_report' =
                IF full
                THEN [lab_report EXCEPT ![cls.id].full_batches = @ \cup {batch}]
                ELSE lab_report
    /\ UNCHANGED <<cfg, pc, class_idx, all_timetables, failures, result,
                   feasibility_calls, stateVars, optVars, engVars>>

\* An end of schedule_class_labs that answers True as soon as one batch completed
LabFinish_mut ==
    /\ pc = "labs"
    /\ lab_loop.batch > num_batches_of(cfg, CurrentClass.year)
    /\ lab_loop' = NoLoop
    /\ IF lab_loop.success_count = 0
       THEN /\ lab_report' = [lab_report EXCEPT ![CurrentClass.id].returned = "RuntimeError"]
            /\ RecordFailure("Lab scheduling failed")
       ELSE /\ lab_report' = [lab_report EXCEPT ![CurrentClass.id].returned = "True"]
            /\ pc' = "theory"
            /\ UNCHANGED <<class_idx, all_timetables, failures>>
    /\ UNCHANGED <<cfg, class_state, result, feasibility_calls, stateVars, optVars, engVars>>

\* The end of schedule_class_labs: RuntimeError when no batch completed,
\* otherwise its return value; the coverage loop that follows only prints.
LabFinish ==
    /\ pc = "labs"
    /\ lab_loop.batch > num_batches_of(cfg, CurrentClass.year)
    /\ lab_loop' = NoLoop
    /\ IF lab_loop.success_count = 0
       THEN /\ lab_report' = [lab_report EXCEPT ![CurrentClass.id].returned = "RuntimeError"]
            /\ RecordFailure("Lab scheduling failed")
       ELSE /\ lab_report' = [lab_report EXCEPT ![CurrentClass.id].returned =
                    IF lab_loop.success_count = num_batches_of(cfg, CurrentClass.year)
                    THEN "True" ELSE "False"]
            /\ pc' = "theory"
            /\ UNCHANGED <<class_idx, all_timetables, failures>>
    /\ UNCHANGED <<cfg, class_state, result, feasibility_calls, stateVars, optVars, engVars>>

\* theory_scheduler.schedule_theory(class_obj)
ScheduleTheory ==
    /\ pc = "theory"
    /\ IF schedule_theory_error(cfg, CurrentClass.year) # None
       THEN RecordFailure(schedule_theory_error(cfg, CurrentClass.year))
       ELSE /\ pc' = "format"
            /\ UNCHANGED <<class_idx, all_timetables, failures>>
    /\ UNCHANGED <<cfg, class_state, lab_loop, lab_report, result,
                   feasibility_calls, stateVars, optVars, engVars>>

\* The class's formatted timetable is stored; an empty one is recorded as a failure.
FormatResult ==
    /\ pc = "format"
    /\ LET class_timetable == format_to_canonical(class_state.slots, CurrentClass.id)
       IN /\ all_timetables' = DictSet(all_timetables, CurrentClass.id,
                [timetable |-> class_timetable, is_dict |-> TRUE, error |-> None])
          /\ failures' = IF class_timetable = <<>>
                         THEN DictSet(failures, CurrentClass.id, "Empty result returned")
                         ELSE failures
    /\ NextClass
    /\ UNCHANGED <<cfg, class_state, lab_loop, lab_report, result,
                   feasibility_calls, stateVars, optVars, engVars>>

\* raw_all_slots: the entries of every stored timetable that is a dict, class by class
RECURSIVE raw_all_slots(_, _)
raw_all_slots(classes, timetables) ==
    IF classes = <<>> THEN <<>>
    ELSE LET id == Head(classes).id
         IN (IF id \in DOMAIN timetables /\ timetables[id].is_dict
             THEN timetables[id].timetable ELSE <<>>)
            \o raw_all_slots(Tail(classes), timetables)

\* The return statement of generate()
Finish ==
    /\ pc = "assemble"
    /\ result' = [success |-> TRUE, stage |-> "COMPLETED", failures |-> failures,
                  valid |-> TRUE,
                  raw_timetable |-> raw_all_slots(normalized_classes(cfg), all_timetables)]
    /\ pc' = "done"
    /\ UNCHANGED <<cfg, class_idx, class_state, lab_loop, lab_report, all_timetables,
                   failures, feasibility_calls, stateVars, optVars, engVars>>

Next ==
    \/ ValidateAndNormalize
    \/ BeginClass
    \/ LabStep
    \/ LabFinish
    \/ ScheduleTheory
    \/ FormatResult
    \/ Finish

Spec == Init /\ [][Next]_vars

(***************************************************************************)
(* Properties of generate()                                                *)
(***************************************************************************)

Returned == pc = "done" /\ result.success

\* Two entries of a timetable meeting at one (day, slot)
SameTime(a, b) == a.day = b.day /\ a.slot = b.slot

\* LAB entries of different batches of one cohort
ParallelLabs(a, b) ==
    /\ a.type = "LAB" /\ b.type = "LAB"
    /\ a.year = b.year /\ a.division = b.division
    /\ a.batch # b.batch

\* C1: in the aggregate timetable generate() returns, no teacher other than
\* the unassigned ones (none, "TBA") is in two entries of one (day, slot),
\* LAB entries of different batches of the same cohort excepted.
C1_TeacherNonOverlap ==
    Returned =>
        LET T == result.raw_timetable
        IN \A i, j \in 1..Len(T) :
            (i < j /\ SameTime(T[i], T[j]) /\ T[i].teacher = T[j].teacher
               /\ T[i].teacher \notin {None, "TBA"})
            => ParallelLabs(T[i], T[j])

\* C2: in the aggregate timetable generate() returns, no room or lab is in
\* two entries of one (day, slot) unless both are LAB entries of different
\* batches of the same cohort.
C2_RoomNonOverlap ==
    Returned =>
        LET T == result.raw_timetable
        IN \A i, j \in 1..Len(T) :
            (i < j /\ SameTime(T[i], T[j]) /\ T[i].room = T[j].room /\ T[i].room # None)
            => ParallelLabs(T[i], T[j])

\* The LAB entries of (batch, subject) in the cohort state
lab_entries_of(st, batch, subject) ==
    LET Mine(a) == a.type = "LAB" /\ a.batch = batch /\ a.subject = subject
    IN SelectSeq(st.slots, Mine)

\* The entries fill exactly one window of `duration` contiguous slots of one day
OneWindow(entries, duration) ==
    /\ Len(entries) = duration
    /\ \E d \in 1..Len(Days) : \E start \in 0..(MaxSlots + 1) :
          \A o \in 0..(duration - 1) :
              \E i \in 1..Len(entries) :
                  entries[i].day = Days[d] /\ entries[i].slot = start + o

InLabPhase == pc \in {"labs", "theory", "format"}

\* C8: every batch that schedule_class_labs counted as fully scheduled has,
\* in the cohort state, LAB entries for every required lab subject of the
\* cohort, each subject in one window of session-length contiguous slots.
C8_FullBatchHasAllLabs ==
    InLabPhase =>
        \A batch \in lab_report[CurrentClass.id].full_batches :
            \A k \in 1..Len(lab_subjects_of(cfg, CurrentClass.year)) :
                OneWindow(lab_entries_of(class_state, batch,
                                         lab_subjects_of(cfg, CurrentClass.year)[k].name),
                          standard_duration)

\* A batch counted as fully scheduled in a cohort that requires two lab subjects
C8_Witness ==
    /\ InLabPhase
    /\ Len(lab_subjects_of(cfg, CurrentClass.year)) >= 2
    /\ lab_report[CurrentClass.id].full_batches # {}

\* Lab scheduling that completed some batches and not others
PartialLabs == \E id \in DOMAIN lab_report : lab_report[id].returned = "False"

\* C10: a cohort state holds placements only after the feasibility verifier
\* was evaluated once and reported the configuration feasible.
C10_FeasibilityBeforePlacement ==
    class_state.slots # <<>> =>
        /\ feasibility_calls = 1
        /\ verify(cfg).raised = None /\ verify(cfg).valid

\* Placements made for a configuration the verifier reports infeasible
InfeasiblePlaced ==
    /\ class_state.slots # <<>>
    /\ verify(cfg).raised = None /\ ~verify(cfg).valid

\* The cohorts generate() reports as generated: stored and not in the failure map
SucceededCohorts ==
    {i \in 1..Len(normalized_classes(cfg)) :
        /\ normalized_classes(cfg)[i].id \in DOMAIN all_timetables
        /\ normalized_classes(cfg)[i].id \notin DOMAIN failures}

\* The lecture subjects that apply to a cohort: of its year, and of its
\* division when the record names one
cohort_lecture_subjects(c, cls) ==
    LET Applies(s) == s.year = cls.year /\ ~is_lab_subject(s)
                      /\ (~Truthy(s.division) \/ s.division = cls.division)
    IN SelectSeq(c.subjects, Applies)

theory_count(T, name) ==
    Cardinality({i \in 1..Len(T) : T[i].type = "THEORY" /\ T[i].subject = name})

\* C7: for every cohort generate() reports as generated, each lecture subject
\* of the cohort has exactly its required weekly number of theory entries in
\* the cohort's returned timetable, and WEEKLY_LECTURE_COMPLETION reports no
\* violation for the cohort on that timetable.
C7_WeeklyCountsExact ==
    Returned =>
        \A i \in SucceededCohorts :
            LET cls == normalized_classes(cfg)[i]
                T == all_timetables[cls.id].timetable
                lectures == cohort_lecture_subjects(cfg, cls)
            IN /\ \A k \in 1..Len(lectures) :
                     theory_count(T, lectures[k].name) = lectures_needed_of(lectures[k])
               /\ \A key \in weekly_completion_violations(T, cfg) :
                     ~(key[2] = cls.year /\ key[3] \in {None, cls.division})

\* C9: a result with valid = true has an aggregate timetable with no hard
\* violation under validate_timetable with the same context.
C9_ValidMeansNoHardViolation ==
    (Returned /\ result.valid) => timetable_valid(result.raw_timetable, cfg)

(***************************************************************************)
(* SpecOpt: TimetableOptimizer.optimize                                    *)
(***************************************************************************)

\* Bounds of the optimizer runs
OptPositions == 4       \* the (day, slot) positions the lectures of the input are put on
OptSlotsPerDay == 2     \* positions per day
MaxIterations == 21     \* the largest iteration budget (one more than max_stuck needs)

max_stuck == 20

\* The context the optimizer validates against: two divisions of one year;
\* Math twice and Phy once a week for SE-A, Math once for SE-B, a practical
\* with no weekly requirement.
OptContext ==
    [academicYears |-> <<"SE">>,
     divisions |-> ("SE" :> <<"A", "B">>),
     subjects |-> << Subject("Math", "SE", "A", FALSE, "Lecture", 2, 2),
                     Subject("Phy", "SE", "A", FALSE, "Lecture", 1, 1),
                     Subject("Math", "SE", "B", FALSE, "Lecture", 1, 1),
                     Subject("PL1", "SE", "A", TRUE, "Practical", -1, -1) >>,
     teachers |-> <<Teacher("T1", <<"Math">>, -1), Teacher("T2", <<"Phy", "PL1">>, -1)>>,
     teacherSubjectMap |-> <<>>,
     rooms |-> <<"R1", "R2">>,
     sharedLabs |-> <<"L1">>,
     labBatchesPerYear |-> EmptyDict]

\* A timetable entry as the optimizer reads it: id, day, slot, year, division, type
opt_entry(id, p, division, subject, teacher, room, type) ==
    [id |-> id,
     day |-> Days[((p - 1) \div OptSlotsPerDay) + 1], slot |-> (p - 1) % OptSlotsPerDay,
     year |-> "SE", division |-> division, batch |-> IF type = "Practical" THEN "B1" ELSE None,
     subject |-> subject, teacher |-> teacher, room |-> room, type |-> type]

\* The context of OptRoundingInput: the weekly requirements its entries meet
OptRoundingContext ==
    [academicYears |-> <<"SE">>,
     divisions |-> ("SE" :> <<"A", "B">>),
     subjects |-> << Subject("Math", "SE", "A", FALSE, "Lecture", 2, 2),
                     Subject("Phy", "SE", "A", FALSE, "Lecture", 5, 5),
                     Subject("Math", "SE", "B", FALSE, "Lecture", 3, 3),
                     Subject("Phy", "SE", "B", FALSE, "Lecture", 2, 2) >>,
     teachers |-> <<Teacher("T1", <<"Math", "Phy">>, -1), Teacher("T2", <<"Math", "Phy">>, -1),
                    Teacher("T3", <<"Phy">>, -1)>>,
     teacherSubjectMap |-> <<>>,
     rooms |-> <<"R1", "R2">>,
     sharedLabs |-> <<>>,
     labBatchesPerYear |-> EmptyDict]

\* A timetable entry on a given day and slot
opt_entry_at(id, day, slot, division, subject, teacher, room, type) ==
    [id |-> id, day |-> day, slot |-> slot,
     year |-> "SE", division |-> division, batch |-> None,
     subject |-> subject, teacher |-> teacher, room |-> room, type |-> type]

\* A valid two-day timetable of SE-A and SE-B: ten entries typed 'THEORY' as
\* TheoryScheduler writes them, and two entries of SE-A typed 'Lecture', the
\* only ones _generate_neighbor can exchange. Its soft scores are 44.22, 64.64,
\* 28.57 and 100 (mean 59.3575); with e5 and e7 exchanged they are 72.78,
\* 64.64, 0 and 100 (mean 59.355, which validate_timetable rounds to 59.36).
OptRoundingInput ==
    << opt_entry_at("e1", "Tuesday", 3, "A", "Math", "T2", "R1", "THEORY"),
       opt_entry_at("e2", "Monday", 2, "A", "Phy", "T2", "R1", "THEORY"),
       opt_entry_at("e3", "Monday", 5, "A", "Phy", "T2", "R1", "THEORY"),
       opt_entry_at("e4", "Tuesday", 4, "A", "Phy", "T1", "R1", "THEORY"),
       opt_entry_at("e5", "Monday", 0, "A", "Math", "T2", "R1", "Lecture"),
       opt_entry_at("e6", "Tuesday", 0, "A", "Phy", "T2", "R1", "THEORY"),
       opt_entry_at("e7", "Tuesday", 1, "A", "Phy", "T3", "R1", "Lecture"),
       opt_entry_at("e8", "Monday", 4, "B", "Phy", "T3", "R2", "THEORY"),
       opt_entry_at("e9", "Monday", 1, "B", "Phy", "T2", "R2", "THEORY"),
       opt_entry_at("e10", "Tuesday", 1, "B", "Math", "T1", "R2", "THEORY"),
       opt_entry_at("e11", "Tuesday", 3, "B", "Math", "T1", "R2", "THEORY"),
       opt_entry_at("e12", "Monday", 3, "B", "Math", "T2", "R2", "THEORY") >>

\* The input timetables: the three lectures of SE-A on any positions (valid
\* or clashing), the lecture of SE-B on the first position, a practical of
\* SE-A on the last; OptRoundingInput; and the empty timetable.
OptInputs ==
    { << opt_entry("e1", p1, "A", "Math", "T1", "R1", "Lecture"),
         opt_entry("e2", p2, "A", "Math", "T1", "R1", "Lecture"),
         opt_entry("e3", p3, "A", "Phy", "T2", "R1", "Lecture"),
         opt_entry("e4", 1, "B", "Math", "T1", "R2", "Lecture"),
         opt_entry("e5", OptPositions, "A", "PL1", "T2", "L1", "Practical") >>
      : p1 \in 1..OptPositions, p2 \in 1..OptPositions, p3 \in 1..OptPositions }
    \cup {OptRoundingInput, <<>>}

\* The outcomes of the float comparison `a > b`, a being a rounded score:
\* an unrounded mean that equals a in exact arithmetic may compare either way.
greater_than(a, b, b_rounded) ==
    IF a > b THEN {TRUE}
    ELSE IF a = b /\ ~b_rounded THEN {TRUE, FALSE}
    ELSE {FALSE}

\* Mutation of skip_invalid: no neighbour is skipped
skip_invalid_mut(valid) == FALSE

\* `if not validation['valid']: continue`
skip_invalid(valid) == ~valid

\* Mutation of lecture_slots: practical entries are exchanged as well
lecture_slots_mut(T) == 1..Len(T)

\* The indices of the entries with type 'Lecture'
lecture_slots(T) == {i \in 1..Len(T) : T[i].type = "Lecture"}

\* What stands for the None that _generate_neighbor returns (`if not neighbor`)
NoNeighbor == <<>>

\* _generate_neighbor for the sampled pair (i1, i2) of lecture entries: None
\* when they belong to different cohorts, else the copy with the (day, slot)
\* of the entries carrying their ids exchanged.
generate_neighbor(T, i1, i2) ==
    IF T[i1].year # T[i2].year \/ T[i1].division # T[i2].division THEN NoNeighbor
    ELSE [i \in 1..Len(T) |->
            IF T[i].id = T[i1].id THEN [T[i] EXCEPT !.day = T[i2].day, !.slot = T[i2].slot]
            ELSE IF T[i].id = T[i2].id
                 THEN [T[i] EXCEPT !.day = T[i1].day, !.slot = T[i1].slot]
                 ELSE T[i]]

\* The neighbours _generate_neighbor may return for T
neighbors_of(T) ==
    IF Len(T) < 2 \/ Cardinality(lecture_slots(T)) < 2 THEN {NoNeighbor}
    ELSE {generate_neighbor(T, pair[1], pair[2]) :
            pair \in {q \in lecture_slots(T) \X lecture_slots(T) : q[1] # q[2]}}

\* self.constraint_engine with self.context, tabulated over the timetables an
\* optimizer run can hold (a swap permutes the positions of the input)
OptRoundingTimetables == {OptRoundingInput} \cup (neighbors_of(OptRoundingInput) \ {NoNeighbor})

OptTimetables == (OptInputs \ {<<>>}) \cup OptRoundingTimetables

\* self.context of the optimizer that is given T
opt_context(T) == IF T \in OptRoundingTimetables THEN OptRoundingContext ELSE OptContext

ValidTable == [T \in OptTimetables |-> timetable_valid(T, opt_context(T))]

ComputedScoreTable == [T \in OptTimetables |-> compute_quality_score(T, opt_context(T))]

ValidatedScoreTable == [T \in OptTimetables |-> validated_quality_score(T, opt_context(T))]

\* validate_timetable(neighbor, self.context): 'valid' and 'qualityScore'
neighbor_valid(T) ==
    IF T \in OptTimetables THEN ValidTable[T] ELSE timetable_valid(T, opt_context(T))

neighbor_scores(T) ==
    IF T \in OptTimetables THEN ValidatedScoreTable[T]
    ELSE validated_quality_score(T, opt_context(T))

\* The locals of optimize() before the call's first statement
opt_call(T, n) ==
    [pc |-> "start", timetable |-> T, max_iterations |-> n, i |-> 0,
     initial_score |-> 0,
     current_timetable |-> <<>>, current_score |-> 0, current_rounded |-> FALSE,
     best_timetable |-> <<>>, best_score |-> 0, best_rounded |-> FALSE,
     iterations_without_improvement |-> 0, neighbor |-> NoNeighbor, returned |-> <<>>]

InitOpt ==
    /\ opt \in {opt_call(T, n) : T \in OptInputs, n \in {0, MaxIterations}}
    /\ StateIdle /\ GenIdle /\ EngIdle

\* optimize() up to the loop: the early return of an empty timetable, else
\* the copies and the initial score.
OptStart ==
    /\ opt.pc = "start"
    /\ IF opt.timetable = <<>>
       THEN opt' = [opt EXCEPT !.pc = "returned", !.returned = opt.timetable]
       ELSE \E score \in ComputedScoreTable[opt.timetable] :
              opt' = [opt EXCEPT !.pc = "loop",
                                 !.initial_score = score,
                                 !.current_timetable = opt.timetable,
                                 !.current_score = score,
                                 !.best_timetable = opt.timetable,
                                 !.best_score = score]
    /\ UNCHANGED <<stateVars, genVars, engVars>>

\* The end of one loop pass: the restart from the best timetable when stuck
restart_if_stuck(o) ==
    IF o.iterations_without_improvement >= max_stuck
    THEN [o EXCEPT !.current_timetable = o.best_timetable,
                   !.current_score = o.best_score,
                   !.current_rounded = o.best_rounded,
                   !.iterations_without_improvement = 0]
    ELSE o

\* One pass of the loop of optimize()
OptIterate ==
    /\ opt.pc = "loop"
    /\ opt.i < opt.max_iterations
    /\ \E neighbor \in neighbors_of(opt.current_timetable) :
         LET o == [opt EXCEPT !.i = @ + 1, !.neighbor = neighbor]
         IN IF neighbor = NoNeighbor THEN opt' = o
            ELSE IF skip_invalid(neighbor_valid(neighbor)) THEN opt' = o
            ELSE \E neighbor_score \in neighbor_scores(neighbor) :
                 \E accept \in greater_than(neighbor_score, opt.current_score,
                                            opt.current_rounded) :
                 \E improve \in greater_than(neighbor_score, opt.best_score,
                                             opt.best_rounded) :
                    opt' = restart_if_stuck(
                        IF accept
                        THEN IF improve
                             THEN [o EXCEPT !.current_timetable = neighbor,
                                            !.current_score = neighbor_score,
                                            !.current_rounded = TRUE,
                                            !.iterations_without_improvement = 0,
                                            !.best_timetable = neighbor,
                                            !.best_score = neighbor_score,
                                            !.best_rounded = TRUE]
                             ELSE [o EXCEPT !.current_timetable = neighbor,
                                            !.current_score = neighbor_score,
                                            !.current_rounded = TRUE,
                                            !.iterations_without_improvement = 0]
                        ELSE [o EXCEPT !.iterations_without_improvement = @ + 1])
    /\ UNCHANGED <<stateVars, genVars, engVars>>

\* return best_timetable
OptReturn ==
    /\ opt.pc = "loop"
    /\ opt.i = opt.max_iterations
    /\ opt' = [opt EXCEPT !.pc = "returned", !.returned = opt.best_timetable]
    /\ UNCHANGED <<stateVars, genVars, engVars>>

NextOpt == OptStart \/ OptIterate \/ OptReturn

SpecOpt == InitOpt /\ [][NextOpt]_vars

(***************************************************************************)
(* Properties of optimize()                                                *)
(***************************************************************************)

\* validate_timetable(T, context)['valid'] for a timetable of an optimizer run
opt_valid(T) == IF T = <<>> THEN timetable_valid(T, OptContext) ELSE ValidTable[T]

OptRunning == opt.pc \in {"loop", "returned"} /\ opt.timetable # <<>>

\* C4: the timetable optimize() returns passes hard-constraint validation,
\* whatever the input timetable and the iteration budget.
C4_ReturnedIsValid ==
    opt.pc = "returned" => opt_valid(opt.returned)

\* The neighbour of the pass just made puts a teacher on two entries of one (day, slot)
DoubleBookedNeighbor(o) ==
    o.neighbor # NoNeighbor /\ teacher_overlap_violations(o.neighbor) # {}

\* C5: started from a timetable that passes hard validation, the live and the
\* best timetable pass it after every iteration, and a pass whose candidate
\* swap double-books a teacher leaves the live timetable as it was.
C5_ValidityPreserved ==
    /\ [](OptRunning /\ opt_valid(opt.timetable) =>
            opt_valid(opt.current_timetable) /\ opt_valid(opt.best_timetable))
    /\ [][(opt.pc = "loop" /\ opt'.pc = "loop" /\ opt_valid(opt.timetable)
           /\ DoubleBookedNeighbor(opt'))
          => opt'.current_timetable = opt.current_timetable]_vars

\* A valid input whose candidate swap double-booked a teacher and was discarded
C5_Witness ==
    /\ opt.pc = "loop" /\ opt.i >= 1
    /\ opt_valid(opt.timetable)
    /\ DoubleBookedNeighbor(opt)
    /\ opt.current_timetable = opt.timetable

\* C6: the best score is never below the input's score and never decreases
\* from one iteration to the next (restarts included), and the returned
\* timetable scores at least what the input scores (both scored by
\* compute_quality_score, as optimize() scores its input).
C6_ScoreMonotone ==
    /\ [](OptRunning =>
            /\ opt.best_score >= opt.initial_score
            /\ (opt.pc = "returned" =>
                  \/ opt.returned = opt.timetable
                  \/ Max(ComputedScoreTable[opt.returned])
                       >= Min(ComputedScoreTable[opt.timetable])))
    /\ [][(opt.pc = "loop" /\ opt'.pc = "loop") => opt'.best_score >= opt.best_score]_vars

(***************************************************************************)
(* SpecVerify: FeasibilityVerifier(context).verify()                       *)
(***************************************************************************)

InitVerify ==
    /\ cfg \in Configs
    /\ pc = "verify"
    /\ class_idx = 0 /\ class_state = EmptyState
    /\ lab_loop = NoLoop /\ lab_report = EmptyDict /\ all_timetables = EmptyDict
    /\ failures = EmptyDict /\ result = None /\ feasibility_calls = 0
    /\ StateIdle /\ OptIdle /\ EngIdle

\* FeasibilityVerifier(context).verify(): the dictionary returned, or the
\* exception raised
VerifyCall ==
    /\ pc = "verify"
    /\ result' = verify(cfg)
    /\ feasibility_calls' = feasibility_calls + 1
    /\ pc' = "verified"
    /\ UNCHANGED <<cfg, class_idx, class_state, lab_loop, lab_report, all_timetables,
                   failures, stateVars, optVars, engVars>>

NextVerify == VerifyCall

SpecVerify == InitVerify /\ [][NextVerify]_vars

\* The cohorts of a configuration: (year, division) pairs
cohorts_of(c) ==
    UNION {{<<c.academicYears[y], DictGet(c.divisions, c.academicYears[y], <<>>)[d]>> :
               d \in 1..Len(DictGet(c.divisions, c.academicYears[y], <<>>))} :
           y \in 1..Len(c.academicYears)}

\* A subject record applies to a cohort: its year, and its division when it names one
applies_to(s, year, division) ==
    s.year = year /\ s.division \in {None, division}

\* Check (a): required theory sessions + lab subjects x session length
\* fit into working days x slots per day, for every cohort
time_feasible(c) ==
    \A co \in cohorts_of(c) :
        SumSeq([i \in 1..Len(c.subjects) |->
                  IF applies_to(c.subjects[i], co[1], co[2])
                  THEN IF c.subjects[i].isPractical THEN lab_slots_per_subject
                       ELSE feasibility_weekly(c.subjects[i])
                  ELSE 0])
          <= c.workingDays.n * c.slotsPerDay

\* Check (b): every year's batch count is at most the number of shared labs
lab_feasible(c) ==
    \A y \in 1..Len(c.academicYears) :
        num_batches_of(c, c.academicYears[y]) <= Len(c.sharedLabs)

\* Check (c): total required teaching periods are within the teachers' capacities
teacher_feasible(c) == total_teaching_load(c) <= total_teacher_capacity(c)

\* The kind of reason a verify() answer carries
reason_kind(r) ==
    IF r.reason = "Teacher Overload" THEN "teacher"
    ELSE IF r.reason = "No subjects defined" THEN "subjects"
    ELSE IF r.reason = None THEN "none"
    ELSE IF SubSeq(r.reason, 1, 4) = "Time" THEN "time" ELSE "lab"

\* C11: for a configuration that lists subjects, verify() returns valid
\* exactly when the time, lab and teacher checks all hold, and otherwise
\* returns the reason of the first failing check in the order time, lab,
\* teacher.
C11_VerifyMatchesChecks ==
    (pc = "verified" /\ cfg.subjects # <<>>) =>
        /\ result.raised = None
        /\ result.valid = (time_feasible(cfg) /\ lab_feasible(cfg) /\ teacher_feasible(cfg))
        /\ ~result.valid =>
              reason_kind(result) = IF ~time_feasible(cfg) THEN "time"
                                    ELSE IF ~lab_feasible(cfg) THEN "lab" ELSE "teacher"

(***************************************************************************)
(* Violation lists of the constraint engine                                *)
(***************************************************************************)

\* The outcomes of the float comparison `x > mean + std_dev` for the count x
\* of a list of counts: decided exactly, either way when both sides are equal
\* in exact arithmetic.
above_mean_plus_std(x, loads) ==
    LET n == Len(loads)
        d == n * x - SumSeq(loads)
    IN IF d <= 0 THEN {FALSE}
       ELSE IF n <= 1 THEN {TRUE}
       ELSE IF d * d * (n - 1) > n * variance_num(loads) THEN {TRUE}
       ELSE IF d * d * (n - 1) < n * variance_num(loads) THEN {FALSE}
       ELSE {TRUE, FALSE}

\* How this run resolves a comparison or a rounding that exact arithmetic
\* leaves open: float arithmetic is deterministic, so one resolution holds
\* for every evaluation of the same expression.
resolve(outcomes, ties) ==
    IF outcomes = {TRUE, FALSE} THEN ties = "high" ELSE TRUE \in outcomes

\* The same for a score with more than one candidate
resolve_score(candidates, ties) ==
    IF ties = "high" THEN Max(candidates) ELSE Min(candidates)

\* BalancedTeacherLoadConstraint.check: the (teacher, day) keys reported
teacher_load_violations(T, ties) ==
    LET load == teacher_daily_load(T)
        loads == values_of(load)
    IN {k \in DOMAIN load : resolve(above_mean_plus_std(load[k], loads), ties)}

\* BalancedDailyLoadConstraint.check: the (year, division, day) keys reported
daily_load_violations(T, ties) ==
    LET all == division_daily_load(T)
    IN {k \in DOMAIN all :
          /\ Len(division_loads(T, <<k[1], k[2]>>)) > 1
          /\ resolve(above_mean_plus_std(all[k], division_loads(T, <<k[1], k[2]>>)), ties)}

\* SubjectRepetitionConstraint.check: the (day, year, division, subject) keys reported
repetition_violations(T) ==
    {k \in DOMAIN daily_subject_count(T) : daily_subject_count(T)[k] > 1}

\* The members of a set as a list, in the one order this process iterates them
RECURSIVE list_of(_)
list_of(S) ==
    IF S = {} THEN <<>>
    ELSE LET k == CHOOSE k \in S : TRUE IN <<k>> \o list_of(S \ {k})

\* violation['constraint'] = constraint.name, for every violation of one constraint
tagged(name, S) == [i \in 1..Cardinality(S) |-> [constraint |-> name, key |-> list_of(S)[i]]]

(***************************************************************************)
(* SpecEngine: ConstraintEngine.validate_timetable called repeatedly on    *)
(* one engine, and the save route of backend/routes/edit_routes.py         *)
(***************************************************************************)

MaxEntries == 3     \* the timetables hold up to MaxEntries entries of EnginePool

\* The context the engine validates against: Math once a week for SE-A, two
\* practicals with no weekly requirement
EngineContext ==
    [academicYears |-> <<"SE">>,
     divisions |-> ("SE" :> <<"A", "B">>),
     subjects |-> << Subject("Math", "SE", "A", FALSE, "Lecture", 1, 1),
                     Subject("PL1", "SE", "A", TRUE, "Practical", -1, -1),
                     Subject("PL2", "SE", "A", TRUE, "Practical", -1, -1) >>,
     teachers |-> <<Teacher("T1", <<"Math", "PL2">>, -1), Teacher("T2", <<"PL1", "PL2">>, -1)>>,
     teacherSubjectMap |-> <<>>,
     rooms |-> <<"R1">>,
     sharedLabs |-> <<"L1", "L2">>,
     labBatchesPerYear |-> EmptyDict]

\* A timetable entry on Monday
engine_entry(id, slot, division, batch, subject, teacher, room, type) ==
    [id |-> id, day |-> "Monday", slot |-> slot,
     year |-> "SE", division |-> division, batch |-> batch,
     subject |-> subject, teacher |-> teacher, room |-> room, type |-> type]

\* The entries the timetables are made of: two lab sessions of batches B1 and
\* B2 of SE-A with the same teacher in the same lab, typed 'LAB' as
\* LabScheduler writes them; a practical of B2 with its own teacher and lab;
\* a lecture of SE-A, a lecture of SE-B with the same teacher and room at the
\* same time, and a lecture with teacher and room 'TBA'.
EnginePool ==
    << engine_entry("a1", 0, "A", "B1", "PL1", "T2", "L1", "LAB"),
       engine_entry("a2", 0, "A", "B2", "PL2", "T2", "L1", "LAB"),
       engine_entry("a3", 0, "A", "B2", "PL2", "T1", "L2", "Practical"),
       engine_entry("a4", 1, "A", None, "Math", "T1", "R1", "Lecture"),
       engine_entry("a5", 1, "B", None, "Math", "T1", "R1", "Lecture"),
       engine_entry("a6", 1, "A", None, "Math", "TBA", "TBA", "Lecture") >>

\* The lists of up to MaxEntries different entries of the pool
EngineTimetables ==
    UNION {{[i \in 1..n |-> EnginePool[f[i]]] :
              f \in {g \in [1..n -> 1..Len(EnginePool)] :
                        \A i, j \in 1..n : i # j => g[i] # g[j]}} :
           n \in 0..MaxEntries}

\* Mutation of hard_violations_start: the list of the previous call is kept
hard_violations_start_mut(previous) == previous

\* `hard_violations = []`: every call collects into a new list, whatever
\* the previous call on this engine collected
hard_violations_start(previous) == <<>>

\* ConstraintEngine.validate_timetable
validate_timetable(T, c, ties, previous) ==
    LET hard == hard_violations_start(previous)
                \o tagged("TEACHER_NON_OVERLAP", teacher_overlap_violations(T))
                \o tagged("ROOM_NON_OVERLAP", room_overlap_violations(T))
                \o tagged("PRACTICAL_BATCH_SYNC", batch_sync_violations(T))
                \o tagged("WEEKLY_LECTURE_COMPLETION", weekly_completion_violations(T, c))
                \o tagged("STRUCTURAL_VALIDITY", structural_violations(T, c))
        soft == tagged("BALANCED_TEACHER_LOAD", teacher_load_violations(T, ties))
                \o tagged("BALANCED_DAILY_LOAD", daily_load_violations(T, ties))
                \o tagged("SUBJECT_REPETITION_AVOIDANCE", repetition_violations(T))
    IN [valid |-> Len(hard) = 0,
        hardViolations |-> hard,
        softViolations |-> soft,
        qualityScore |-> resolve_score(validated_quality_score(T, c), ties)]

\* A validation that lets every timetable be saved
validate_timetable_changes_mut(T, c, ties) ==
    LET r == validate_timetable(T, c, ties, <<>>)
    IN [valid |-> r.valid, hardViolations |-> r.hardViolations,
        softViolations |-> r.softViolations, canSave |-> TRUE]

\* edit.validate_edit.validate_timetable_changes: a new engine for every call
validate_timetable_changes(T, c, ties) ==
    LET r == validate_timetable(T, c, ties, <<>>)
    IN [valid |-> r.valid, hardViolations |-> r.hardViolations,
        softViolations |-> r.softViolations, canSave |-> r.valid]

\* What stands for the absent "validation" key of a response
NoValidation ==
    [valid |-> FALSE, hardViolations |-> <<>>, softViolations |-> <<>>, canSave |-> FALSE]

NoResponse ==
    [status |-> 0, success |-> None, message |-> None,
     has_validation |-> FALSE, validation |-> NoValidation, versionId |-> None]

\* The response of POST /save for a request that carries the three fields,
\* and whether HistoryService.auto_create_version stored a version (it raises
\* ValueError for a branchData without id, which the route catches).
save_timetable(T, c, branch_id, ties) ==
    IF T = <<>>
    THEN [response |-> [NoResponse EXCEPT !.status = 400, !.message = "Missing required fields"],
          created |-> FALSE]
    ELSE LET validation == validate_timetable_changes(T, c, ties)
         IN IF ~validation.canSave
            THEN [response |-> [status |-> 400, success |-> "False",
                                message |-> "Cannot save timetable with hard constraint violations",
                                has_validation |-> TRUE, validation |-> validation,
                                versionId |-> None],
                  created |-> FALSE]
            ELSE [response |-> [status |-> 200, success |-> "True",
                                message |-> "Timetable saved successfully",
                                has_validation |-> TRUE, validation |-> validation,
                                versionId |-> IF Truthy(branch_id) THEN "v1" ELSE None],
                  created |-> Truthy(branch_id)]

MaxCalls == 2       \* validate_timetable is called up to MaxCalls times on the engine

InitEngine ==
    /\ eng \in {[pc |-> "ready", timetable |-> T, context |-> EngineContext,
                  given_timetable |-> T, given_context |-> EngineContext,
                  branch_id |-> b, ties |-> t, calls |-> <<>>,
                  response |-> NoResponse, versions |-> 0]
                 : T \in EngineTimetables, b \in {None, "branch1"}, t \in {"low", "high"}}
    /\ StateIdle /\ GenIdle /\ OptIdle

\* engine.validate_timetable(timetable, context) on the engine of the earlier calls
ValidateCall ==
    /\ eng.pc = "ready"
    /\ Len(eng.calls) < MaxCalls
    /\ eng' = [eng EXCEPT !.calls = Append(@,
                  validate_timetable(eng.timetable, eng.context, eng.ties,
                      IF eng.calls = <<>> THEN <<>>
                      ELSE eng.calls[Len(eng.calls)].hardViolations))]
    /\ UNCHANGED <<stateVars, genVars, optVars>>

\* POST /save with the timetable and the context
SaveCall ==
    /\ eng.pc = "ready"
    /\ LET r == save_timetable(eng.timetable, eng.context, eng.branch_id, eng.ties)
       IN eng' = [eng EXCEPT !.pc = "saved", !.response = r.response,
                             !.versions = IF r.created THEN @ + 1 ELSE @]
    /\ UNCHANGED <<stateVars, genVars, optVars>>

NextEngine == ValidateCall \/ SaveCall

SpecEngine == InitEngine /\ [][NextEngine]_vars

theory_entries_of(id) ==
    LET IsTheory(a) == a.type = "THEORY"
    IN IF id \in DOMAIN all_timetables
       THEN SelectSeq(all_timetables[id].timetable, IsTheory)
       ELSE <<>>

\* C13: for the single cohort SE-A with one lecture subject of 3 sessions a
\* week, five days of six slots, one qualified teacher and two rooms,
\* generate() succeeds and the cohort's timetable holds exactly 3 THEORY
\* entries, at 3 distinct (day, slot) positions.
C13_ThreeTheoryEntries ==
    (pc = "done" /\ cfg = SingleCohortConfig) =>
        LET entries == theory_entries_of("SE-A")
        IN /\ result.success
           /\ Len(entries) = 3
           /\ \A i, j \in 1..Len(entries) :
                 i # j => <<entries[i].day, entries[i].slot>> # <<entries[j].day, entries[j].slot>>

\* The cohort ids the configuration asks for
class_ids(c) == {normalized_classes(c)[i].id : i \in 1..Len(normalized_classes(c))}

\* A step that changes the failure map files one entry, under the cohort
\* being generated, stores that cohort's timetable entry and moves on to the
\* next cohort (or to the final assembly after the last one).
FailureStep ==
    failures' # failures =>
        /\ pc \in {"labs", "theory", "format"}
        /\ CurrentClass.id \in DOMAIN failures'
        /\ failures' = DictSet(failures, CurrentClass.id, failures'[CurrentClass.id])
        /\ CurrentClass.id \in DOMAIN all_timetables'
        /\ class_idx' = class_idx + 1
        /\ pc' = IF class_idx < Len(normalized_classes(cfg)) THEN "class_start" ELSE "assemble"

\* What generate() returns once the generation loop has run
AfterLoop ==
    (pc = "done" /\ result.stage = "COMPLETED") =>
        /\ result.success
        /\ result.failures = failures
        /\ DOMAIN failures \subseteq class_ids(cfg)
        /\ DOMAIN all_timetables = class_ids(cfg)

\* C14: a failure while generating one cohort is recorded in the failure map
\* under that cohort only, generation continues with the next cohort,
\* generate() returns success true, and the returned hierarchy holds an entry
\* for every configured year and division.
C14_FailureIsolated == [][FailureStep]_vars /\ []AfterLoop

\* generate() has returned after the first cohort failed and the second did not
C14_Witness ==
    /\ pc = "done" /\ result.stage = "COMPLETED"
    /\ Len(normalized_classes(cfg)) = 2
    /\ normalized_classes(cfg)[1].id \in DOMAIN failures
    /\ normalized_classes(cfg)[2].id \notin DOMAIN failures
    /\ all_timetables[normalized_classes(cfg)[2].id].timetable # <<>>

\* The working days of a configuration: the days it lists, 5 when it gives
\* a number or lists none
working_day_count(c) == IF c.workingDays.kind = "list" THEN c.workingDays.n ELSE 5

\* Some year has more lab subjects than the configuration has working days
more_labs_than_days(c) ==
    LET subjects == dedupe_subjects(c.subjects, {})
    IN \E i \in 1..Len(subjects) :
          lab_count_of(subjects, subjects[i].year) > working_day_count(c)

\* C15: generate() refuses to start (success false, no cohort attempted)
\* exactly when some year has more lab subjects than working days; a
\* well-formed configuration whose lab count fits, one that does not list
\* workingDays included, is not rejected.
C15_RejectedExactlyWhenTooManyLabs ==
    pc = "done" =>
        /\ (~result.success) <=> more_labs_than_days(cfg)
        /\ (~result.success) =>
              /\ class_idx = 0
              /\ all_timetables = EmptyDict
              /\ failures = EmptyDict

(***************************************************************************)
(* Properties of the edit validation and of POST /save                     *)
(***************************************************************************)

LabsEndedFor(i) ==
    /\ i \in 1..Len(normalized_classes(cfg))
    /\ \/ pc \in {"theory", "format"} /\ i = class_idx
       \/ pc \in {"class_start", "assemble"} /\ i = class_idx - 1

\* The batches of the cohort that hold LAB entries of every required lab subject
completed_batches(c, st, year) ==
    {b \in 1..num_batches_of(c, year) :
        \A k \in 1..Len(lab_subjects_of(c, year)) :
            lab_entries_of(st, batch_name(b), lab_subjects_of(c, year)[k].name) # <<>>}

\* C17: schedule_class_labs raises its hard failure exactly when no batch
\* completed its full set of lab subjects, returns False when some batches
\* but not all completed, and returns True exactly when all batches completed.
C17_LabOutcomeByCompletedBatches ==
    \A i \in 1..Len(normalized_classes(cfg)) :
        (LabsEndedFor(i) /\ lab_subjects_of(cfg, normalized_classes(cfg)[i].year) # <<>>) =>
            LET cls == normalized_classes(cfg)[i]
                n == Cardinality(completed_batches(cfg, class_state, cls.year))
                returned == lab_report[cls.id].returned
            IN /\ returned \in {"RuntimeError", "False", "True"}
               /\ (returned = "RuntimeError") <=> (n = 0)
               /\ (returned = "True") <=> (n = num_batches_of(cfg, cls.year))
               /\ (returned = "False") <=> (0 < n /\ n < num_batches_of(cfg, cls.year))

\* schedule_class_labs returned False: one batch completed and another did not
C17_Witness ==
    /\ pc = "theory"
    /\ lab_report[CurrentClass.id].returned = "False"
    /\ completed_batches(cfg, class_state, CurrentClass.year) # {}
    /\ completed_batches(cfg, class_state, CurrentClass.year)
         # 1..num_batches_of(cfg, CurrentClass.year)

\* C18: after schedule_class_labs, at every (day, slot) of the cohort where
\* two or more batches hold LAB entries, the batches carry pairwise different
\* subjects.
C18_ParallelBatchesDifferentSubjects ==
    \A i \in 1..Len(normalized_classes(cfg)) :
        LabsEndedFor(i) =>
            \A x, y \in 1..Len(class_state.slots) :
                LET a == class_state.slots[x]
                    b == class_state.slots[y]
                IN (a.type = "LAB" /\ b.type = "LAB" /\ a.batch # b.batch /\ SameTime(a, b))
                   => a.subject # b.subject

(***************************************************************************)
(* The search of TimetableScheduler: backend/engine/scheduler.py           *)
(***************************************************************************)

\* self.max_iterations as __init__ defaults it
max_iterations == 10000

\* self.iterations: set in __init__, assigned nowhere else
iterations == 0

\* The batches of the cohort that hold a LAB entry
placed_batches(c, st, year) ==
    {b \in 1..num_batches_of(c, year) :
        \E x \in 1..Len(st.slots) :
            st.slots[x].type = "LAB" /\ st.slots[x].batch = batch_name(b)}

\* C19: the search of TimetableScheduler ends, its iteration counter never
\* exceeds max_iterations, and a placement whose continuation failed is
\* rolled back before the next candidate is tried: once the search has moved
\* past a cohort's labs, the state holds LAB entries only of batches whose
\* every required subject was placed.
C19_FailedPlacementsRolledBack ==
    /\ iterations <= max_iterations
    /\ \A i \in 1..Len(normalized_classes(cfg)) :
          LabsEndedFor(i) =>
              placed_batches(cfg, class_state, normalized_classes(cfg)[i].year)
                \subseteq completed_batches(cfg, class_state, normalized_classes(cfg)[i].year)

(***************************************************************************)
(* Properties of the non-overlap rules                                     *)
(***************************************************************************)

\* The validation result lists a violation of the named constraint
reported(r, name) ==
    \E k \in 1..Len(r.hardViolations) : r.hardViolations[k].constraint = name

\* Two entries at one (day, slot), other than LAB entries of different
\* batches of one cohort, name the same assigned teacher
teacher_clash(T) ==
    \E i, j \in 1..Len(T) :
        /\ i < j /\ SameTime(T[i], T[j]) /\ ~ParallelLabs(T[i], T[j])
        /\ T[i].teacher = T[j].teacher /\ T[i].teacher \notin {None, "", "TBA"}

\* The same for the room or lab
room_clash(T) ==
    \E i, j \in 1..Len(T) :
        /\ i < j /\ SameTime(T[i], T[j]) /\ ~ParallelLabs(T[i], T[j])
        /\ T[i].room = T[j].room /\ T[i].room \notin {None, "", "TBA"}

\* C20: validate_timetable reports TEACHER_NON_OVERLAP (ROOM_NON_OVERLAP)
\* exactly when an assigned teacher (room or lab) is named by two entries of
\* one (day, slot) that are not LAB entries of different batches of the same
\* cohort; parallel lab batches of one cohort are not reported.
C20_OverlapReportedExceptParallelLabs ==
    \A k \in 1..Len(eng.calls) :
        /\ reported(eng.calls[k], "TEACHER_NON_OVERLAP") <=> teacher_clash(eng.timetable)
        /\ reported(eng.calls[k], "ROOM_NON_OVERLAP") <=> room_clash(eng.timetable)

(***************************************************************************)
(* Properties of the lab windows                                           *)
(***************************************************************************)

\* The LAB entries of the cohort state
lab_entries(st) ==
    LET IsLab(a) == a.type = "LAB"
    IN SelectSeq(st.slots, IsLab)

appended_entries ==
    SubSeq(class_state'.slots, Len(class_state.slots) + 1, Len(class_state'.slots))

\* Some entry of the state at (day, slot) satisfies Test
occupied_by(st, day, slot, Test(_)) ==
    \E i \in 1..Len(st.slots) :
        st.slots[i].day = day /\ st.slots[i].slot = slot /\ Test(st.slots[i])

\* A step of the lab loop that commits a session writes session-length
\* contiguous slots of one day for one batch, lab and qualified teacher, and
\* before the step the batch, the lab and the teacher had no entry in any of
\* these slots.
LabCommitStep ==
    (pc = "labs" /\ class_state'.slots # class_state.slots) =>
        LET new == appended_entries
            first == new[1]
            SameBatch(a) == a.batch = first.batch
            SameRoom(a) == a.room = first.room
            SameTeacher(a) == a.teacher = first.teacher
        IN /\ Len(new) = standard_duration
           /\ SubSeq(class_state'.slots, 1, Len(class_state.slots)) = class_state.slots
           /\ Truthy(first.room) /\ Truthy(first.teacher)
           /\ InList(subject_teachers(cfg, first.subject), first.teacher)
           /\ InList(cfg.sharedLabs, first.room)
           /\ \A k \in 1..Len(new) :
                 /\ new[k].type = "LAB"
                 /\ new[k].day = first.day /\ new[k].slot = first.slot + (k - 1)
                 /\ new[k].batch = first.batch /\ new[k].subject = first.subject
                 /\ new[k].room = first.room /\ new[k].teacher = first.teacher
                 /\ ~occupied_by(class_state, new[k].day, new[k].slot, SameBatch)
                 /\ ~occupied_by(class_state, new[k].day, new[k].slot, SameRoom)
                 /\ ~occupied_by(class_state, new[k].day, new[k].slot, SameTeacher)

\* No lab and no teacher is held by two entries of the cohort state at one (day, slot)
NoSharedLabOrTeacher ==
    \A i, j \in 1..Len(class_state.slots) :
        (i < j /\ SameTime(class_state.slots[i], class_state.slots[j])) =>
            /\ class_state.slots[i].room # class_state.slots[j].room
            /\ class_state.slots[i].teacher # class_state.slots[j].teacher

\* C22: every lab session the lab scheduler commits occupies session-length
\* contiguous slots of one day, and at the commit the batch has no entry, the
\* chosen lab no occupant and the chosen, qualified teacher no occupant in
\* any slot of the window; so within one cohort state built from scratch no
\* lab and no teacher is held by two entries at the same (day, slot).
C22_LabCommitOnFreeWindow == [][LabCommitStep]_vars /\ []NoSharedLabOrTeacher

\* Two batches of the cohort hold sessions in the same window
C22_Witness ==
    \E i, j \in 1..Len(class_state.slots) :
        /\ SameTime(class_state.slots[i], class_state.slots[j])
        /\ class_state.slots[i].batch # class_state.slots[j].batch

(***************************************************************************)
(* Properties of a cohort state after both schedulers                      *)
(***************************************************************************)

\* A whole-class lecture: an entry of the division as a whole, not of a batch
whole_class_lecture(a) == a.batch = None /\ a.type # "LAB"

\* C23: after the lab scheduler and then the theory scheduler have run on a
\* cohort state (one pre-loaded with the locked slots of an uploaded
\* timetable included), no (day, slot) of the cohort holds a whole-class
\* lecture together with another entry of the cohort, and every entry locked
\* before scheduling is still present and unchanged.
C23_LectureSlotsExclusive ==
    pc = "format" =>
        /\ \A i, j \in 1..Len(class_state.slots) :
              LET a == class_state.slots[i]
                  b == class_state.slots[j]
              IN (i # j /\ SameTime(a, b) /\ a.year = b.year /\ a.division = b.division)
                 => ~whole_class_lecture(a)
        /\ \A k \in 1..Len(uploaded_of(cfg)) :
              /\ InList(class_state.slots, uploaded_of(cfg)[k])
              /\ uploaded_of(cfg)[k].id \in class_state.locked_slots

(***************************************************************************)
(* Properties of TheoryScheduler.schedule_theory                           *)
(***************************************************************************)

\* C24: for every well-formed cohort schedule_theory returns True without
\* raising: no cohort's failure is an error raised by schedule_theory, and
\* once it returned the cohort state holds, for each lecture subject, between
\* 0 and the subject's weekly count of THEORY entries.
C24_TheoryNeverRaises ==
    /\ \A id \in DOMAIN failures : failures[id] # "AttributeError"
    /\ pc = "format" =>
          \A k \in 1..Len(theory_subjects_of(cfg, CurrentClass.year)) :
              theory_count(class_state.slots, theory_subjects_of(cfg, CurrentClass.year)[k].name)
                <= lectures_needed_of(theory_subjects_of(cfg, CurrentClass.year)[k])

\* ---------------------------------------------------------------------
\* Remaining lectures of a subject (TimetableState.get_remaining_lectures)
\* ---------------------------------------------------------------------

\* smartInputData.subjects of the state under SpecState: a lecture subject
\* of every SE division (division unset) and a practical of division A.
StateSubjects ==
    << Subject("Math", "SE", None, FALSE, "Lecture", 2, 2),
       Subject("PL1", "SE", "A", TRUE, "Practical", 1, 1) >>

\* The first record with this name, year and exactly this division gives
\* lecturesPerWeek (0 when missing); no record gives 0.
RECURSIVE required_count_of(_, _, _, _)
required_count_of(subjects, subject, year, division) ==
    IF subjects = <<>> THEN 0
    ELSE LET s == Head(subjects)
         IN IF s.name = subject /\ s.year = year /\ s.division = division
            THEN (IF s.lecturesPerWeek = -1 THEN 0 ELSE s.lecturesPerWeek)
            ELSE required_count_of(Tail(subjects), subject, year, division)

get_remaining_lectures(st, subjects, subject, year, division) ==
    LET required == required_count_of(subjects, subject, year, division)
        current == get_subject_count(st, subject, year, division)
    IN IF required - current > 0 THEN required - current ELSE 0

\* The curriculum records that apply to a cohort: same name and year, and a
\* division that is unset or the cohort's.
applying_records(subjects, subject, year, division) ==
    {i \in 1..Len(subjects) :
        /\ subjects[i].name = subject /\ subjects[i].year = year
        /\ subjects[i].division \in {None, division}}

weekly_count_for(subjects, subject, year, division) ==
    LET A == applying_records(subjects, subject, year, division)
    IN IF A = {} THEN 0
       ELSE LET s == subjects[CHOOSE i \in A : \A j \in A : i <= j]
            IN IF s.lecturesPerWeek = -1 THEN 0 ELSE s.lecturesPerWeek

fulfilled_entries(st, subject, year, division) ==
    Cardinality({i \in 1..Len(st.slots) :
        /\ st.slots[i].subject = subject /\ st.slots[i].year = year
        /\ st.slots[i].division = division})

\* C25: in every state, for every subject, year and division,
\* get_remaining_lectures is max(0, required - fulfilled), where required is
\* the weekly count of the curriculum record applying to the cohort (same
\* year, division unset or equal) and fulfilled is the number of current
\* entries of (subject, year, division).
C25_RemainingIsRequiredMinusFulfilled ==
    \A subject \in {"Math", "PL1"}, division \in {"A", "B"} :
        LET want == weekly_count_for(StateSubjects, subject, "SE", division)
                      - fulfilled_entries(state, subject, "SE", division)
        IN get_remaining_lectures(state, StateSubjects, subject, "SE", division)
             = IF want > 0 THEN want ELSE 0

(***************************************************************************)
(* Properties of the subjects the schedulers place                         *)
(***************************************************************************)

\* The curriculum has a record of this name for year y whose division is
\* unset or d
subject_applies(c, name, y, d) ==
    \E k \in 1..Len(c.subjects) :
        /\ c.subjects[k].name = name /\ c.subjects[k].year = y
        /\ c.subjects[k].division \in {None, d}

\* C26: every entry the lab scheduler or the theory scheduler places for a
\* cohort (year y, division d) has a subject whose curriculum record has
\* year y and a division that is unset or d; a subject restricted to another
\* division of the year is never placed for d.
C26_PlacedSubjectsApplyToCohort ==
    pc \in {"labs", "theory", "format"} =>
        \A i \in 1..Len(class_state.slots) :
            subject_applies(cfg, class_state.slots[i].subject,
                            CurrentClass.year, CurrentClass.division)

(***************************************************************************)
(* Properties of locked slots                                              *)
(***************************************************************************)

\* The entries of the cohort state that were stored with lock=True: the
\* uploaded slots and the slots the lab scheduler committed.
stored_locked(c, st) ==
    {i \in 1..Len(st.slots) :
        \/ st.slots[i].type = "LAB"
        \/ \E u \in 1..Len(uploaded_of(c)) : uploaded_of(c)[u] = st.slots[i]}

\* C27: for every entry stored with assign_slot(entry, lock=True) (uploaded
\* slots and committed lab slots), is_slot_locked on the entry's
\* (day, slot, year, division) key is True in every later state, so that
\* order_slots never offers the slot for filling.
C27_LockedEntriesReportLocked ==
    pc \in {"labs", "theory", "format"} =>
        \A i \in stored_locked(cfg, class_state) :
            is_slot_locked(class_state, slot_key_of(class_state.slots[i]))

(***************************************************************************)
(* Properties of the derived indices of the state                          *)
(***************************************************************************)

\* How often the entry a occurs in a list
occurrences(s, a) == Cardinality({i \in 1..Len(s) : s[i] = a})

\* An occupancy index holds, under the (name, day, slot) key of every entry
\* that can be assigned, exactly the current copies of that entry, and no
\* key has an empty list.
index_agrees(st, index, Name(_)) ==
    /\ \A a \in StateAssignments :
           LET key == <<Name(a), a.day, a.slot>>
           IN Truthy(Name(a)) =>
                  occurrences(DictGet(index, key, <<>>), a) = occurrences(st.slots, a)
    /\ \A key \in DOMAIN index : index[key] # <<>>

\* C28: after any sequence of assign_slot and rollback_slot calls (a rollback
\* of an entry that is not currently assigned included), the teacher and
\* room occupancy indices hold exactly the current entries with that teacher
\* or room at that time, and the count of every (subject, year, division) is
\* the number of current entries of that subject for that cohort.
C28_IndicesAgreeWithEntries ==
    /\ index_agrees(state, state.teacher_assignments, LAMBDA a : a.teacher)
    /\ index_agrees(state, state.room_assignments, LAMBDA a : a.room)
    /\ \A a \in StateAssignments :
           Truthy(a.subject) =>
               get_subject_count(state, a.subject, a.year, a.division)
                 = fulfilled_entries(state, a.subject, a.year, a.division)

(***************************************************************************)
(* Properties of the slot indices the schedulers use                       *)
(***************************************************************************)

\* The entries of the cohort state the schedulers placed (not uploaded)
scheduler_placed(c, st) ==
    {i \in 1..Len(st.slots) :
        \A u \in 1..Len(uploaded_of(c)) : uploaded_of(c)[u] # st.slots[i]}

\* C29: every slot index at which the lab scheduler or the theory scheduler
\* places an entry is an index of the slot grid that generate_slot_grid
\* enumerates, 0..slots_per_day-1: no entry is placed at index slots_per_day.
C29_PlacedSlotsInGrid ==
    pc \in {"labs", "theory", "format"} =>
        \A i \in scheduler_placed(cfg, class_state) :
            class_state.slots[i].slot \in 0..(calculate_time_slots(cfg).total_slots - 1)

(***************************************************************************)
(* Frame of optimize()                                                     *)
(***************************************************************************)

unique_ids(T) == \A i, j \in 1..Len(T) : T[i].id = T[j].id => i = j

\* How many 'Lecture' entries of the cohort the timetable has at (day, slot)
lectures_at(T, year, division, day, slot) ==
    Cardinality({i \in lecture_slots(T) :
        /\ T[i].year = year /\ T[i].division = division
        /\ T[i].day = day /\ T[i].slot = slot})

\* R has the entries of T, in T's order, with at most day and slot changed;
\* entries that are not 'Lecture' keep their day and slot; per cohort the
\* lectures occupy the same (day, slot) pairs equally often.
same_but_lecture_times(T, R) ==
    /\ Len(R) = Len(T)
    /\ \A i \in 1..Len(T) :
          /\ [R[i] EXCEPT !.day = T[i].day, !.slot = T[i].slot] = T[i]
          /\ T[i].type # "Lecture" => R[i] = T[i]
    /\ \A i \in 1..Len(T) : \A j \in 1..Len(T) :
          /\ lectures_at(R, T[i].year, T[i].division, T[j].day, T[j].slot)
               = lectures_at(T, T[i].year, T[i].division, T[j].day, T[j].slot)
          /\ lectures_at(R, T[i].year, T[i].division, R[j].day, R[j].slot)
               = lectures_at(T, T[i].year, T[i].division, R[j].day, R[j].slot)

\* C30: for an input timetable with unique ids, optimize() never modifies
\* its input, and the timetable it returns has exactly the input's entries
\* with every field other than (day, slot) unchanged; lab/practical entries
\* keep their (day, slot), and within each cohort the multiset of
\* (day, slot) pairs of the lecture entries is that of the input. The best
\* timetable, which is the one returned, has these properties after every
\* iteration.
C30_OnlyLectureTimesPermuted ==
    /\ [][opt'.timetable = opt.timetable]_vars
    /\ [](opt.pc = "loop" /\ unique_ids(opt.timetable)
            => same_but_lecture_times(opt.timetable, opt.best_timetable))
    /\ [](opt.pc = "returned" /\ unique_ids(opt.timetable)
            => same_but_lecture_times(opt.timetable, opt.returned))

\* optimize() returned a timetable that differs from its input
C30_Witness ==
    /\ opt.pc = "returned" /\ unique_ids(opt.timetable)
    /\ opt.timetable # <<>>
    /\ opt.returned # opt.timetable

====
